---- MODULE Spec2Model ----
(***************************************************************************)
(* Verification model of the models module of fire: the Table query       *)
(* builder (lib/modules/models/table.js) with its statement builders, the  *)
(* clause builders they call, the query hand-over to the datastore and the *)
(* SQL the datastore runs; the Models registry (lib/modules/models/        *)
(* index.js); and the create route of the API (lib/modules/api/index.js).  *)
(***************************************************************************)
EXTENDS Integers, Sequences, FiniteSets, TLC

VARIABLES models, registry, request, deferred, args, clauses, sqlish, call, sent, db, outcome

vars == <<models, registry, request, deferred, args, clauses, sqlish, call, sent, db, outcome>>

(***************************************************************************)
(* JavaScript values that reach the builders.                              *)
(***************************************************************************)
Null == [t |-> "null"]

Num(n) == [t |-> "number", n |-> n]

Str(s) == [t |-> "string", s |-> s]

Arr(items) == [t |-> "array", items |-> items]

KV(k, v) == [k |-> k, v |-> v]

Obj(kv) == [t |-> "object", kv |-> kv]

Builder(q) == [t |-> "builder", q |-> q]

Truthy(v) ==
  CASE v.t = "null" -> FALSE
    [] v.t = "number" -> v.n # 0
    [] v.t = "string" -> v.s # ""
    [] OTHER -> TRUE

Keys(o) == [i \in 1..Len(o.kv) |-> o.kv[i].k]

HasKey(o, k) == \E i \in 1..Len(o.kv) : o.kv[i].k = k

Get(o, k) == o.kv[CHOOSE i \in 1..Len(o.kv) : o.kv[i].k = k].v

Range(s) == {s[i] : i \in 1..Len(s)}

IndexOf(s, x) == x \in Range(s)

(***************************************************************************)
(* Model metadata: the models, properties and associations the Tables are  *)
(* bound to.  Property and Model are collaborators of table.js.            *)
(***************************************************************************)
NoTemplate == <<>>

Lit(text) == [lit |-> text, name |-> "", arg |-> ""]

Tok(name) == [lit |-> "", name |-> name, arg |-> ""]

Fn(name, arg) == [lit |-> "", name |-> name, arg |-> arg]

PropertyDefaults ==
  [model |-> "", name |-> "", columnName |-> "", allowed |-> TRUE,
   declaredClauses |-> <<>>, association |-> FALSE, hasOne |-> "",
   hasMany |-> "", belongsTo |-> "", manyToMany |-> FALSE,
   associatedModel |-> "", through |-> "", throughPropertyName |-> "",
   relationshipVia |-> "", autoFetch |-> FALSE, whitelisted |-> FALSE,
   autoFetchProperties |-> <<>>, required |-> FALSE, counting |-> "",
   declaredSqlish |-> NoTemplate, isHidden |-> FALSE, isAggregate |-> FALSE,
   isVirtual |-> FALSE, rawWhere |-> "", columnNameIndicator |-> "$"]

Column(model, name, columnName, cl) ==
  [model |-> model, name |-> name, columnName |-> columnName,
   declaredClauses |-> cl] @@ PropertyDefaults

UserProperties ==
  << Column("User", "id", "id", <<"SERIAL PRIMARY KEY">>),
     Column("User", "name", "name", <<"TEXT", "NOT NULL">>),
     Column("User", "score", "score", <<"INTEGER", "NOT NULL", "DEFAULT 0">>),
     [allowed |-> FALSE, isVirtual |-> TRUE, counting |-> "posts"]
       @@ Column("User", "postsCount", "posts_count", <<>>),
     [allowed |-> FALSE, isVirtual |-> TRUE,
      declaredSqlish |-> <<Tok("score"), Lit(" + "), Fn("count", "posts")>>]
       @@ Column("User", "rank", "rank", <<>>),
     [allowed |-> FALSE, association |-> TRUE, hasMany |-> "author",
      associatedModel |-> "Post", relationshipVia |-> "author"]
       @@ Column("User", "posts", "posts", <<>>),
     [allowed |-> FALSE, association |-> TRUE, hasOne |-> "user",
      associatedModel |-> "Profile", relationshipVia |-> "user",
      autoFetch |-> TRUE]
       @@ Column("User", "profile", "profile", <<>>),
     [allowed |-> FALSE, association |-> TRUE, manyToMany |-> TRUE,
      associatedModel |-> "Project", through |-> "Membership",
      throughPropertyName |-> "user", relationshipVia |-> "users",
      autoFetch |-> TRUE]
       @@ Column("User", "projects", "projects", <<>>) >>

PostProperties ==
  << Column("Post", "id", "id", <<"SERIAL PRIMARY KEY">>),
     Column("Post", "title", "title", <<"TEXT">>),
     [association |-> TRUE, belongsTo |-> "posts", associatedModel |-> "User",
      relationshipVia |-> "posts", required |-> TRUE, autoFetch |-> TRUE]
       @@ Column("Post", "author", "author_id", <<"INTEGER", "REFERENCES \"users\"(id)">>) >>

ProfileProperties ==
  << Column("Profile", "id", "id", <<"SERIAL PRIMARY KEY">>),
     Column("Profile", "bio", "bio", <<"TEXT">>),
     [association |-> TRUE, belongsTo |-> "profile", associatedModel |-> "User",
      relationshipVia |-> "profile"]
       @@ Column("Profile", "user", "user_id", <<"INTEGER", "REFERENCES \"users\"(id)">>) >>

ProjectProperties ==
  << Column("Project", "id", "id", <<"SERIAL PRIMARY KEY">>),
     Column("Project", "title", "title", <<"TEXT">>),
     [allowed |-> FALSE, association |-> TRUE, manyToMany |-> TRUE,
      associatedModel |-> "User", through |-> "Membership",
      throughPropertyName |-> "project", relationshipVia |-> "projects",
      required |-> TRUE, autoFetch |-> TRUE, whitelisted |-> TRUE,
      autoFetchProperties |-> <<"name", "postsCount", "projects">>]
       @@ Column("Project", "users", "users", <<>>) >>

MembershipProperties ==
  << Column("Membership", "id", "id", <<"SERIAL PRIMARY KEY">>),
     [association |-> TRUE, belongsTo |-> "projects", associatedModel |-> "User",
      relationshipVia |-> "projects"]
       @@ Column("Membership", "user", "user_id", <<"INTEGER">>),
     [association |-> TRUE, belongsTo |-> "users", associatedModel |-> "Project",
      relationshipVia |-> "users"]
       @@ Column("Membership", "project", "project_id", <<"INTEGER">>) >>

LogProperties ==
  << Column("Log", "message", "message", <<"TEXT">>),
     [rawWhere |-> "level >= $1"] @@ Column("Log", "level", "level", <<"INTEGER">>) >>

ModelNames == <<"User", "Post", "Profile", "Project", "Membership", "Log">>

Models == Range(ModelNames)

\* The properties each model is set up with.
InstalledProperties(model) ==
  CASE model = "User" -> UserProperties
    [] model = "Post" -> PostProperties
    [] model = "Profile" -> ProfileProperties
    [] model = "Project" -> ProjectProperties
    [] model = "Membership" -> MembershipProperties
    [] OTHER -> LogProperties

InstalledModels == [model \in Models |-> InstalledProperties(model)]

getAllProperties(model) == models[model]

tableize(model) ==
  CASE model = "User" -> "users"
    [] model = "Post" -> "posts"
    [] model = "Profile" -> "profiles"
    [] model = "Project" -> "projects"
    [] model = "Membership" -> "memberships"
    [] OTHER -> "logs"

underscore(name) ==
  CASE name = "postsCount" -> "posts_count"
    [] OTHER -> name

PropertyKeys ==
  UNION {{<<m, InstalledProperties(m)[i].name>> : i \in 1..Len(InstalledProperties(m))} : m \in Models}

NoProperty == [model |-> "", name |-> ""] @@ PropertyDefaults

Found(property) == property.name # ""

\* The property of that name, or NoProperty for undefined.
ownProperty(model, name) ==
  Head(SelectSeq(getAllProperties(model), LAMBDA p : p.name = name) \o <<NoProperty>>)

split(keyPath) ==
  CASE keyPath = "posts.title" -> <<"posts", "title">>
    [] keyPath = "posts.bogus" -> <<"posts", "bogus">>
    [] keyPath = "author.name" -> <<"author", "name">>
    [] keyPath = "projects.title" -> <<"projects", "title">>
    [] OTHER -> <<keyPath>>

pathProperty(first, names) ==
  IF Len(names) = 1 THEN first
  ELSE IF Found(first) /\ first.association
  THEN ownProperty(first.associatedModel, names[2])
  ELSE NoProperty

getModelProperty(model, keyPath) ==
  pathProperty(ownProperty(model, split(keyPath)[1]), split(keyPath))

isAllowed(property) == property.allowed

isAssociation(property) == property.association

isManyToMany(property) == property.manyToMany

getAssociatedModel(property) == property.associatedModel

getAssociations(model) ==
  SelectSeq(getAllProperties(model), LAMBDA p : p.association)

relationshipVia(property) ==
  ownProperty(property.associatedModel, property.relationshipVia)

(***************************************************************************)
(* The query object of the SQL builder (knex): what each builder call      *)
(* records on it.  A column reference 'table.column' is kept as its two    *)
(* parts, 'table as alias' as table and alias.                             *)
(***************************************************************************)
Ref(table, column) == [table |-> table, column |-> column]

NoRef == Ref("", "")

EmptyQuery(from) ==
  [from |-> from, method |-> "select", columns |-> <<>>, joins |-> <<>>,
   wheres |-> <<>>, orders |-> <<>>, groups |-> <<>>, limit |-> 0,
   offset |-> 0, counters |-> <<>>, update |-> <<>>, insert |-> <<>>,
   returning |-> <<>>, count |-> ""]

NoQuery == EmptyQuery("")

ColumnRef(table, column, as) ==
  [table |-> table, column |-> column, raw |-> "", as |-> as]

ColumnRaw(raw, as) == [table |-> "", column |-> "", raw |-> raw, as |-> as]

Join(type, table, as, left, right) ==
  [type |-> type, table |-> table, as |-> as, left |-> left, right |-> right]

WhereDefaults ==
  [type |-> "basic", bool |-> "and", ref |-> NoRef, ref2 |-> NoRef, op |-> "=",
   value |-> Null, raw |-> "", sub |-> <<>>, query |-> <<>>]

Where(type, ref, op, value) ==
  [type |-> type, ref |-> ref, op |-> op, value |-> value] @@ WhereDefaults

WhereRaw(raw, ref, ref2, value) ==
  [type |-> "raw", raw |-> raw, ref |-> ref, ref2 |-> ref2, value |-> value]
    @@ WhereDefaults

WhereGroup(bool, sub) == [type |-> "group", bool |-> bool, sub |-> sub] @@ WhereDefaults

WhereExists(query) == [type |-> "exists", query |-> <<query>>] @@ WhereDefaults

\* A function given to where()/whereExists() that the builder has kept and
\* that throws the message when the query is compiled.
WhereThrows(message) == [type |-> "throws", raw |-> message] @@ WhereDefaults

\* The name a joined table is referred to by, and the names a query can refer to.
visibleName(join) == IF join.as # "" THEN join.as ELSE join.table

Visible(q) == {q.from} \cup {visibleName(q.joins[i]) : i \in 1..Len(q.joins)}

\* The state a builder works on: the query under construction, the
\* properties' memoized sqlish text, and the error thrown, if any.
Build(q, memo) == [q |-> q, memo |-> memo, err |-> ""]

Throw(b, message) == [b EXCEPT !.err = message]

Ok(b) == b.err = ""

quote(string) == "\"" \o string \o "\""

getName(self) == quote(tableize(self))

getProperty(self, propertyName) == getModelProperty(self, propertyName)

getFirstProperty(self, keyPath) ==
  IF Len(split(keyPath)) > 1 THEN getProperty(self, split(keyPath)[1]) ELSE NoProperty

RECURSIVE JoinStrings(_, _)
JoinStrings(strings, separator) ==
  IF strings = <<>> THEN ""
  ELSE IF Len(strings) = 1 THEN strings[1]
  ELSE strings[1] \o separator \o JoinStrings(Tail(strings), separator)

Names(associations) == [i \in 1..Len(associations) |-> associations[i].name]

(***************************************************************************)
(* Computed (read-only) properties.                                        *)
(***************************************************************************)
keyOf(property) == <<property.model, property.name>>

associatedTableOf(targetProperty) ==
  IF targetProperty.through # "" THEN tableize(targetProperty.through)
  ELSE tableize(getAssociatedModel(targetProperty))

associatedColumnOf(targetProperty) ==
  IF targetProperty.through # ""
  THEN getProperty(targetProperty.through, targetProperty.throughPropertyName).columnName
  ELSE relationshipVia(targetProperty).columnName

\* Lines 275-298, once the target property is looked up.
countSubquery(table, targetProperty) ==
  IF ~Found(targetProperty) THEN [err |-> "TypeError", text |-> ""]
  ELSE IF ~isAssociation(targetProperty)
  THEN [err |-> "Count only works on associations.", text |-> ""]
  ELSE [err |-> "",
        text |-> "(SELECT COUNT(*) FROM " \o quote(associatedTableOf(targetProperty))
                 \o " WHERE " \o getName(table) \o ".id = "
                 \o quote(associatedTableOf(targetProperty))
                 \o "." \o associatedColumnOf(targetProperty) \o ")"]

\* The count subquery correlated with the table of the calling builder.
createReadOnlyStatementOnSelf(self, property, targetPropertyName) ==
  countSubquery(self, getModelProperty(property.model, targetPropertyName))

createReadOnlyStatement(self, property, targetPropertyName) ==
  countSubquery(property.model, getModelProperty(property.model, targetPropertyName))

memoized(b, key, made) ==
  IF made.err # "" THEN Throw(b, made.err)
  ELSE [b EXCEPT !.memo[key] = <<Lit(made.text)>>]

\* if(property.options.counting && !property.options.sqlish) { sqlish = ... }
memoizeCounting(b, self, property) ==
  IF ~Ok(b) \/ property.counting = "" \/ b.memo[keyOf(property)] # NoTemplate THEN b
  ELSE memoized(b, keyOf(property),
                createReadOnlyStatement(self, property, property.counting))

replaced(token, rest, made, prefix) ==
  IF token.name = "" THEN [rest EXCEPT !.text = token.lit \o @]
  ELSE IF token.arg = "" THEN [rest EXCEPT !.text = prefix \o underscore(token.name) \o @]
  ELSE IF made.err # "" THEN [err |-> made.err, text |-> ""]
  ELSE [rest EXCEPT !.text = made.text \o @]

\* sqlish.replace(/\$(\w+)(\("(.*?)"\))?/ig, ...) with bare tokens replaced
\* by prefix + underscore(name) and $name("arg") by the count subquery.
RECURSIVE replaceSqlish(_, _, _, _)
replaceSqlish(sqlishText, self, property, prefix) ==
  IF sqlishText = <<>> THEN [err |-> "", text |-> ""]
  ELSE replaced(Head(sqlishText),
                replaceSqlish(Tail(sqlishText), self, property, prefix),
                createReadOnlyStatement(self, property, Head(sqlishText).arg),
                prefix)

rawColumn(b, made, as) ==
  IF made.err # "" THEN Throw(b, made.err)
  ELSE [b EXCEPT !.q.columns = Append(@, ColumnRaw("(" \o made.text \o ")", as))]

expanded(b, self, property, prefix, as) ==
  IF ~Ok(b) \/ b.memo[keyOf(property)] = NoTemplate THEN b
  ELSE rawColumn(b, replaceSqlish(b.memo[keyOf(property)], self, property, prefix), as)

\* The computed column of a non-storable property, as the three SELECT
\* column loops emit it: (expression) as <alias>.
computedColumn(b, self, property, prefix, as) ==
  expanded(memoizeCounting(b, self, property), self, property, prefix, as)

(***************************************************************************)
(* Association joins and the columns selected for a joined association.    *)
(***************************************************************************)
aliasOf(self, associations) ==
  tableize(self) \o "_" \o JoinStrings(Names(associations), "_")

\* The alias of the root table taken for the parent of every chain.
previousAliasOfRoot(self, associations) == tableize(self)

previousAliasOf(self, associations) ==
  JoinStrings(<<tableize(self)>> \o Names(SubSeq(associations, 1, Len(associations) - 1)), "_")

joinTypeOf(association) ==
  IF association.required THEN "innerJoin" ELSE "leftOuterJoin"

throughJoins(b, association, alias, previousAlias, associatedTable, relation1Property, relation2Property) ==
  IF ~Found(relationshipVia(association)) THEN Throw(b, "TypeError")
  ELSE IF ~Found(relation1Property) \/ ~Found(relation2Property)
  THEN Throw(b, "Could not find property on through model.")
  ELSE [b EXCEPT !.q.joins = @ \o
          << Join("leftOuterJoin", associatedTable, "",
                  Ref(associatedTable, relation1Property.columnName),
                  Ref(previousAlias, "id")),
             Join("leftOuterJoin", tableize(getAssociatedModel(association)), alias,
                  Ref(associatedTable, relation2Property.columnName),
                  Ref(alias, "id")) >>]

\* Lines 323-349: the through table, then the associated table.
joinManyToMany(b, self, associations) ==
  throughJoins(b, associations[Len(associations)], aliasOf(self, associations),
               previousAliasOf(self, associations),
               tableize(associations[Len(associations)].through),
               getProperty(associations[Len(associations)].through,
                           associations[Len(associations)].throughPropertyName),
               getProperty(associations[Len(associations)].through,
                           relationshipVia(associations[Len(associations)]).throughPropertyName))

\* Lines 350-371: previousAlias.id = alias.<column of the property on the other side>.
joinOnProperty(b, association, alias, previousAlias, property, message) ==
  IF ~Found(property) THEN Throw(b, message)
  ELSE [b EXCEPT !.q.joins = Append(@,
          Join(joinTypeOf(association), tableize(getAssociatedModel(association)), alias,
               Ref(previousAlias, "id"), Ref(alias, property.columnName)))]

joinAssociation(b, self, associations, association, alias, previousAlias) ==
  IF ~Ok(b) THEN b
  ELSE IF isManyToMany(association) THEN joinManyToMany(b, self, associations)
  ELSE IF association.hasOne # ""
  THEN joinOnProperty(b, association, alias, previousAlias,
                      getProperty(getAssociatedModel(association), association.hasOne),
                      "TypeError")
  ELSE IF association.hasMany # ""
  THEN joinOnProperty(b, association, alias, previousAlias,
                      getProperty(getAssociatedModel(association), association.hasMany),
                      "Could not find association property.")
  ELSE IF association.belongsTo # ""
  THEN [b EXCEPT !.q.joins = Append(@,
          Join(joinTypeOf(association), tableize(getAssociatedModel(association)), alias,
               Ref(previousAlias, association.columnName), Ref(alias, "id")))]
  ELSE IF association.autoFetch THEN Throw(b, "Unknown association type.")
  ELSE b

addJoinStatement(b, self, associations) ==
  joinAssociation(b, self, associations, associations[Len(associations)],
                  aliasOf(self, associations), previousAliasOf(self, associations))

\* A select entry is a dotted path, kept as the list of its names.
startsWith(selectProperty, names) ==
  /\ Len(selectProperty) > Len(names)
  /\ SubSeq(selectProperty, 1, Len(names)) = names

restOf(selectProperty, names) ==
  JoinStrings(SubSeq(selectProperty, Len(names) + 1, Len(selectProperty)), ".")

RECURSIVE columnAliasPrefix(_, _)
columnAliasPrefix(associations, property) ==
  IF associations = <<>> THEN ""
  ELSE Head(associations).name \o property.columnNameIndicator
         \o columnAliasPrefix(Tail(associations), property)

columnAliasOf(associations, property) ==
  columnAliasPrefix(associations, property) \o property.columnName

RECURSIVE selectAssociationColumns(_, _, _, _, _, _, _)
selectAssociationColumns(b, self, associations, properties, selectIsArray, selectAllProperties, selectProperties) ==
  IF properties = <<>> \/ ~Ok(b) THEN b
  ELSE LET property == Head(properties)
           alias == JoinStrings(<<tableize(self)>> \o Names(associations), "_")
           as == columnAliasOf(associations, property)
           wanted == \/ ~selectIsArray
                     \/ selectAllProperties
                     \/ property.name = "id"
                     \/ property.name \in selectProperties
           b1 == IF ~wanted THEN b
                 ELSE IF isAllowed(property)
                 THEN [b EXCEPT !.q.columns = Append(@, ColumnRef(alias, property.columnName, as))]
                 ELSE computedColumn(b, self, property, alias \o ".", as)
       IN  selectAssociationColumns(b1, self, associations, Tail(properties),
                                    selectIsArray, selectAllProperties, selectProperties)

addSelectColumnsForAssociation(b, self, associations, select) ==
  LET referenceProperty == associations[Len(associations)]
      properties == getAllProperties(getAssociatedModel(referenceProperty))
      names == Names(associations)
      matching == IF select.t = "array"
                  THEN {p \in Range(select.items) : startsWith(p, names)}
                  ELSE {}
      selectAllProperties == \E p \in matching : restOf(p, names) = "*"
      selectProperties ==
        {restOf(p, names) : p \in {m \in matching : restOf(m, names) # "*"}}
          \cup (IF referenceProperty.whitelisted
                THEN Range(referenceProperty.autoFetchProperties) ELSE {})
      selectIsArray == select.t = "array" \/ referenceProperty.whitelisted
  IN  IF ~Ok(b) THEN b
      ELSE selectAssociationColumns(b, self, associations, properties, selectIsArray,
                                    selectAllProperties, selectProperties)

RECURSIVE addAssociation(_, _, _, _, _)
RECURSIVE addChildAssociations(_, _, _, _, _, _)
addChildAssociations(b, self, associations, childAssociations, select, autoFetchDepth) ==
  IF childAssociations = <<>> \/ ~Ok(b) THEN b
  ELSE addChildAssociations(
         IF /\ Head(childAssociations).autoFetch
            /\ \/ ~associations[Len(associations)].whitelisted
               \/ Head(childAssociations).name
                    \in Range(associations[Len(associations)].autoFetchProperties)
         THEN addAssociation(b, self, Append(associations, Head(childAssociations)),
                             select, autoFetchDepth)
         ELSE b,
         self, associations, Tail(childAssociations), select, autoFetchDepth)

\* The child associations fetched one step beyond the depth.
fetchChildrenOneMore(b, self, associations, select, autoFetchDepth) ==
  IF Len(associations) <= autoFetchDepth
  THEN addChildAssociations(
         b, self, associations,
         getAssociations(getAssociatedModel(associations[Len(associations)])),
         select, autoFetchDepth)
  ELSE b

\* Lines 391-404: the child associations, while the depth allows.
fetchChildren(b, self, associations, select, autoFetchDepth) ==
  IF Len(associations) < autoFetchDepth
  THEN addChildAssociations(
         b, self, associations,
         getAssociations(getAssociatedModel(associations[Len(associations)])),
         select, autoFetchDepth)
  ELSE b

addAssociation(b, self, associations, select, autoFetchDepth) ==
  fetchChildren(addJoinStatement(addSelectColumnsForAssociation(b, self, associations, select),
                                 self, associations),
                self, associations, select, autoFetchDepth)

(***************************************************************************)
(* WHERE.  A list of where terms stands for the calls made on the query,   *)
(* in order.  table.js hands functions to where() and whereExists(); the   *)
(* builder either runs such a function during the call that receives it,   *)
(* or keeps it and runs it when the query is compiled (deferred).  Which    *)
(* of the two is a matter of the knex release installed, so both are        *)
(* modelled: an error thrown inside the function is thrown by the call in  *)
(* the first case and stays in the query as a WhereThrows term in the      *)
(* second.                                                                 *)
(***************************************************************************)
Terms(terms) == [err |-> "", terms |-> terms]

Failed(message) == [err |-> message, terms |-> <<>>]

\* What the terms made inside a function given to where()/whereExists()
\* leave on the query.
inCallback(made) ==
  IF made.err # "" /\ deferred THEN Terms(<<WhereThrows(made.err)>>) ELSE made

WHERE_TRANSFORMER ==
  [key \in {"$is", "$gte", "$gt", "$lt", "$lte", "$not", "$like", "$ilike",
            "$regex", "$or", "$in"} |->
     CASE key = "$is" -> <<"=", "IS">>
       [] key = "$gte" -> <<">=">>
       [] key = "$gt" -> <<">">>
       [] key = "$lt" -> <<"<">>
       [] key = "$lte" -> <<"<=">>
       [] key = "$not" -> <<"!=", "IS NOT">>
       [] key = "$like" -> <<"LIKE">>
       [] key = "$ilike" -> <<"ILIKE">>
       [] key = "$regex" -> <<"~">>
       [] OTHER -> <<>>]

hasSlot(rawWhere) == rawWhere = "level >= $1"

orValues(ref, ors) ==
  [i \in 1..Len(ors) |->
     [Where("basic", ref, "=", ors[i]) EXCEPT !.bool = IF i = 1 THEN "and" ELSE "or"]]

\* The columnName string a reference was given as.
columnNameOf(ref) == IF ref.table = "" THEN ref.column ELSE ref.table \o "." \o ref.column

transformKey(ref, key, operand) ==
  IF key \notin DOMAIN WHERE_TRANSFORMER
  THEN Failed("Invalid transformer '" \o key \o "'.")
  ELSE LET transformer == WHERE_TRANSFORMER[key]
       IN  IF key = "$or"
           THEN IF operand.t # "array" THEN inCallback(Failed("TypeError"))
                ELSE Terms(<<WhereGroup("and", orValues(ref, operand.items))>>)
           ELSE IF key = "$in" THEN Terms(<<Where("in", ref, "in", operand)>>)
           ELSE IF operand = Null
           THEN IF Len(transformer) <= 1
                THEN Failed("Cannot use transformer '" \o key \o "' with NULL value.")
                ELSE Terms(<<WhereRaw(columnNameOf(ref) \o " " \o transformer[2] \o " null",
                                      ref, NoRef, Null)>>)
           ELSE IF operand.t = "array" /\ key = "$not"
           THEN Terms(<<Where("notIn", ref, "not in", operand)>>)
           ELSE Terms(<<Where("basic", ref, transformer[1], operand)>>)

\* The terms of both, unless one of them failed.
both(first, rest) ==
  IF first.err # "" THEN first
  ELSE IF rest.err # "" THEN rest
  ELSE Terms(first.terms \o rest.terms)

RECURSIVE transformKeys(_, _)
transformKeys(ref, kv) ==
  IF kv = <<>> THEN Terms(<<>>)
  ELSE both(transformKey(ref, Head(kv).k, Head(kv).v), transformKeys(ref, Tail(kv)))

addValueClause(ref, value, property) ==
  IF value.t = "array" THEN Terms(<<Where("in", ref, "in", value)>>)
  ELSE IF Found(property) /\ property.rawWhere # ""
  THEN IF hasSlot(property.rawWhere)
       THEN Terms(<<WhereRaw(property.rawWhere, NoRef, NoRef, value)>>)
       ELSE Terms(<<WhereRaw(property.rawWhere, NoRef, NoRef, Null)>>)
  ELSE IF value = Null THEN Terms(<<Where("null", ref, "is", Null)>>)
  ELSE IF value.t = "builder" THEN Terms(<<Where("basic", ref, "=", value)>>)
  ELSE IF value.t = "object" THEN transformKeys(ref, value.kv)
  ELSE Terms(<<Where("basic", ref, "=", value)>>)

findAssociationsTo(model, target) ==
  SelectSeq(getAssociations(model), LAMBDA p : p.associatedModel = target)

correlation(self, target, firstProperty, otherProperty, via) ==
  IF isManyToMany(firstProperty)
  THEN WhereRaw(otherProperty.columnName \o " = " \o quote(tableize(self)) \o "." \o quote("id"),
                Ref("", otherProperty.columnName), Ref(tableize(self), "id"), Null)
  ELSE IF isAllowed(via)
  THEN WhereRaw(via.columnName \o " = " \o getName(self) \o ".id",
                Ref("", via.columnName), Ref(tableize(self), "id"), Null)
  ELSE WhereRaw(tableize(self) \o "." \o firstProperty.columnName \o " = " \o target \o ".id",
                Ref(tableize(self), firstProperty.columnName), Ref(target, "id"), Null)

existsWith(self, target, firstProperty, value, otherProperty, via) ==
  IF value.err # "" THEN value
  ELSE IF isManyToMany(firstProperty) /\ ~Found(otherProperty) THEN Failed("TypeError")
  ELSE IF ~isManyToMany(firstProperty) /\ ~Found(via) THEN Failed("TypeError")
  ELSE Terms(<<WhereExists(
                 [EmptyQuery(target) EXCEPT !.wheres =
                    Append(value.terms,
                           correlation(self, target, firstProperty, otherProperty, via))])>>)

\* whereExists(function() { ... }) for a dotted key path.
existsClause(self, property, firstProperty, whereValue) ==
  inCallback(existsWith(self, tableize(property.model), firstProperty,
                        addValueClause(Ref("", property.columnName), whereValue, firstProperty),
                        getProperty(firstProperty.through, firstProperty.throughPropertyName),
                        relationshipVia(firstProperty)))

\* The column a plain (undotted) where key is compared on.
whereColumn(property) ==
  IF isManyToMany(property)
  THEN Ref(tableize(property.through),
           findAssociationsTo(property.through, relationshipVia(property).model)[1].columnName)
  ELSE IF property.hasOne # ""
  THEN Ref(tableize(relationshipVia(property).model) \o "_" \o property.name, "id")
  ELSE Ref(tableize(property.model), property.columnName)

whereFound(self, property, firstProperty, whereValue, message) ==
  IF ~Found(property) THEN Failed(message)
  ELSE IF Found(firstProperty)
  THEN existsClause(self, property, firstProperty, whereValue)
  ELSE IF isManyToMany(property)
          /\ findAssociationsTo(property.through, relationshipVia(property).model) = <<>>
  THEN Failed("TypeError")
  ELSE IF property.hasOne # "" /\ ~Found(relationshipVia(property))
  THEN Failed("TypeError")
  ELSE addValueClause(whereColumn(property), whereValue, property)

whereProperty(self, propertyName, whereValue, message) ==
  whereFound(self, getProperty(self, propertyName), getFirstProperty(self, propertyName),
             whereValue, message)

RECURSIVE whereBranch(_, _)
whereBranch(self, kv) ==
  IF kv = <<>> THEN Terms(<<>>)
  ELSE both(whereProperty(self, Head(kv).k, Head(kv).v,
              "Cannot find property with name '" \o "$or" \o "' on $or on table '"
                \o tableize(self) \o "'."),
            whereBranch(self, Tail(kv)))

\* this.where(function() { ... }) / this.orWhere(function() { ... })
grouped(bool, made) ==
  IF made.err # "" THEN inCallback(made) ELSE Terms(<<WhereGroup(bool, made.terms)>>)

\* Every branch attached with where(), none with orWhere().
RECURSIVE whereBranchesAnd(_, _, _)
whereBranchesAnd(self, ors, index) ==
  IF index > Len(ors) THEN Terms(<<>>)
  ELSE both(grouped("and",
                    IF ors[index].t = "object" THEN whereBranch(self, ors[index].kv)
                    ELSE Failed("TypeError")),
            whereBranchesAnd(self, ors, index + 1))

RECURSIVE whereBranches(_, _, _)
whereBranches(self, ors, index) ==
  IF index > Len(ors) THEN Terms(<<>>)
  ELSE both(grouped(IF index = 1 THEN "and" ELSE "or",
                    IF ors[index].t = "object" THEN whereBranch(self, ors[index].kv)
                    ELSE Failed("TypeError")),
            whereBranches(self, ors, index + 1))

RECURSIVE whereKeys(_, _)
whereKeys(self, kv) ==
  IF kv = <<>> THEN Terms(<<>>)
  ELSE both(IF Head(kv).k = "$or"
            THEN grouped("and", IF Head(kv).v.t # "array" THEN Failed("TypeError")
                                ELSE whereBranches(self, Head(kv).v.items, 1))
            ELSE whereProperty(self, Head(kv).k, Head(kv).v,
                   "Cannot find property with name '" \o Head(kv).k \o "' on table '"
                     \o tableize(self) \o "'."),
            whereKeys(self, Tail(kv)))

withTerms(b, made) ==
  IF made.err # "" THEN Throw(b, made.err)
  ELSE [b EXCEPT !.q.wheres = @ \o made.terms]

addWhereClause(b, self, whereMap) ==
  IF ~Ok(b) THEN b
  ELSE IF whereMap.t # "object" THEN Throw(b, "TypeError")
  ELSE withTerms(b, whereKeys(self, whereMap.kv))

(***************************************************************************)
(* ORDER BY, LIMIT, OFFSET, RETURNING, SET and INSERT.                     *)
(***************************************************************************)
Order(ref, direction) == [ref |-> ref, direction |-> direction]

toUpperCase(string) ==
  CASE string = "asc" -> "ASC"
    [] string = "desc" -> "DESC"
    [] OTHER -> string

sortValueOf(value) ==
  IF value.t = "string" THEN toUpperCase(value.s)
  ELSE IF value.t = "number" /\ value.n < 0 THEN "DESC"
  ELSE "ASC"

RECURSIVE sortKeys(_, _, _)
sortKeys(b, self, kv) ==
  IF kv = <<>> \/ ~Ok(b) THEN b
  ELSE LET propertyName == Head(kv).k
           property == getProperty(self, propertyName)
           sortValue == sortValueOf(Head(kv).v)
           ref == IF property.isVirtual THEN Ref("", property.columnName)
                  ELSE Ref(tableize(self), property.columnName)
           b1 == IF ~Found(property)
                 THEN Throw(b, "Warning: cannot find property '" \o propertyName \o "' in orderBy.")
                 ELSE IF sortValue \notin {"ASC", "DESC"}
                 THEN Throw(b, "Value '" \o sortValue \o "' is not allowed in orderBy.")
                 ELSE [b EXCEPT !.q.orders = Append(@, Order(ref, sortValue))]
       IN  sortKeys(b1, self, Tail(kv))

addSortClause(b, self, sort) ==
  IF ~Ok(b) \/ ~Truthy(sort) THEN b
  ELSE IF sort.t = "string" THEN Throw(b, "Ordering by a string is not allowed anymore.")
  ELSE sortKeys(b, self, sort.kv)

addLimitClauseOff(b, limit) == b

addLimitClause(b, limit) ==
  IF Ok(b) /\ limit > 0 THEN [b EXCEPT !.q.limit = limit] ELSE b

addOffsetClause(b, skip) ==
  IF Ok(b) /\ skip > 0 THEN [b EXCEPT !.q.offset = skip] ELSE b

rawReturning(b, made, as) ==
  IF made.err # "" THEN Throw(b, made.err)
  ELSE [b EXCEPT !.q.returning = Append(@, ColumnRaw("(" \o made.text \o ")", as))]

returned(b, self, property) ==
  IF ~Ok(b) \/ b.memo[keyOf(property)] = NoTemplate \/ property.isAggregate THEN b
  ELSE rawReturning(b, replaceSqlish(b.memo[keyOf(property)], self, property, ""),
                    property.columnName)

RECURSIVE returningColumns(_, _, _)
returningColumns(b, self, properties) ==
  IF properties = <<>> \/ ~Ok(b) THEN b
  ELSE returningColumns(returned(memoizeCounting(b, self, Head(properties)), self,
                                 Head(properties)),
                        self, Tail(properties))

addReturningClause(b, self) ==
  IF ~Ok(b) THEN b
  ELSE returningColumns([b EXCEPT !.q.returning = <<ColumnRaw("*", "")>>],
                        self, getAllProperties(self))

Counter(fn, column, amount) == [fn |-> fn, column |-> column, amount |-> amount]

\* updateMap[columnName] = value
assign(map, columnName, value) ==
  IF \E i \in 1..Len(map) : map[i].k = columnName
  THEN [i \in 1..Len(map) |-> IF map[i].k = columnName THEN KV(columnName, value) ELSE map[i]]
  ELSE Append(map, KV(columnName, value))

RECURSIVE transformSetValueAssigning(_, _, _)
transformSetValueAssigning(b, columnName, kv) ==
  IF kv = <<>> \/ ~Ok(b) THEN b
  ELSE LET key == Head(kv).k
           b1 == IF key \notin {"$inc", "$decr"}
                 THEN Throw(b, "Invalid transformer '" \o key \o "'.")
                 ELSE [b EXCEPT !.q.update = assign(@, columnName, Head(kv).v)]
       IN  transformSetValueAssigning(b1, columnName, Tail(kv))

RECURSIVE transformSetValue(_, _, _)
transformSetValue(b, columnName, kv) ==
  IF kv = <<>> \/ ~Ok(b) THEN b
  ELSE LET key == Head(kv).k
           b1 == IF key = "$inc"
                 THEN [b EXCEPT !.q.counters = Append(@, Counter("increment", columnName, Head(kv).v))]
                 ELSE IF key = "$decr"
                 THEN [b EXCEPT !.q.counters = Append(@, Counter("decrement", columnName, Head(kv).v))]
                 ELSE Throw(b, "Invalid transformer '" \o key \o "'.")
       IN  transformSetValue(b1, columnName, Tail(kv))

\* An array is an object whose keys are its indexes.
entriesOf(value) ==
  IF value.t = "array" THEN [i \in 1..Len(value.items) |-> KV("index", value.items[i])]
  ELSE value.kv

RECURSIVE setKeys(_, _, _)
setKeys(b, self, kv) ==
  IF kv = <<>> \/ ~Ok(b) THEN b
  ELSE LET propertyName == Head(kv).k
           setValue == Head(kv).v
           property == getProperty(self, propertyName)
           b1 == IF ~Found(property)
                 THEN Throw(b, "Could not find property '" \o propertyName \o "' in '"
                                 \o tableize(self) \o "'.")
                 ELSE IF ~isAllowed(property) THEN b
                 ELSE IF setValue.t \in {"object", "array"}
                 THEN transformSetValue(b, property.columnName, entriesOf(setValue))
                 ELSE [b EXCEPT !.q.update = assign(@, property.columnName, setValue)]
       IN  setKeys(b1, self, Tail(kv))

addSetClause(b, self, setMap) ==
  IF ~Ok(b) \/ ~Truthy(setMap) THEN b
  ELSE LET b1 == setKeys(b, self, entriesOf(setMap))
       IN  IF Ok(b1) THEN [b1 EXCEPT !.q.method = "update"] ELSE b1

RECURSIVE insertKeys(_, _, _)
insertKeys(b, self, kv) ==
  IF kv = <<>> \/ ~Ok(b) THEN b
  ELSE LET propertyName == Head(kv).k
           property == getProperty(self, propertyName)
           b1 == IF ~Found(property)
                 THEN Throw(b, "Could not find property '" \o propertyName \o "' in '"
                                 \o tableize(self) \o "'.")
                 ELSE IF ~isAllowed(property) THEN b
                 ELSE [b EXCEPT !.q.insert = assign(@, property.columnName, Head(kv).v)]
       IN  insertKeys(b1, self, Tail(kv))

addInsertClause(b, self, setMap) ==
  IF ~Ok(b) THEN b
  ELSE IF setMap.t \notin {"object", "array"} THEN Throw(b, "TypeError")
  ELSE LET b1 == insertKeys(b, self, entriesOf(setMap))
       IN  IF Ok(b1) THEN [b1 EXCEPT !.q.method = "insert"] ELSE b1

(***************************************************************************)
(* Statements.  A builder returns the statement, the memoized sqlish text  *)
(* it leaves behind, and the error it threw, if any.                       *)
(***************************************************************************)
Plain(q) == [kind |-> "query", name |-> "", with |-> NoQuery, main |-> q, lines |-> <<>>]

Cte(name, w, q) == [kind |-> "cte", name |-> name, with |-> w, main |-> q, lines |-> <<>>]

Raw(head, lines) ==
  [kind |-> "raw", name |-> head, with |-> NoQuery, main |-> NoQuery, lines |-> lines]

NoStatement == Raw("", <<>>)

Built(statement, b) == [statement |-> statement, memo |-> b.memo, err |-> b.err]

Thrown(b) == [statement |-> NoStatement, memo |-> b.memo, err |-> b.err]

hasId(self) == Found(getProperty(self, "id"))

\* The builder's query as the statement, or what it threw.
builtPlain(b) == IF Ok(b) THEN Built(Plain(b.q), b) ELSE Thrown(b)

\* knex.raw('WITH name AS (?) ?', [withQuery, query])
builtCte(name, w, q) == IF Ok(w) THEN Built(Cte(name, w.q, q), w) ELSE Thrown(w)

whereIfGiven(b, self, whereMap) ==
  IF Truthy(whereMap) THEN addWhereClause(b, self, whereMap) ELSE b

counted(b, propertyName, property) ==
  IF propertyName = "" THEN [b EXCEPT !.q.count = "*"]
  ELSE IF ~Found(property) THEN Throw(b, "Unknown property '" \o propertyName \o "'.")
  ELSE [b EXCEPT !.q.count = property.columnName]

createCountStatement(memo, self, propertyName, whereMap) ==
  builtPlain(whereIfGiven(counted(Build(EmptyQuery(tableize(self)), memo), propertyName,
                                  ownProperty(self, propertyName)),
                          self, whereMap))

\* The build state of createSelectStatement: selectQuery, withQuery, memo.
Select(q, w, usingCTE, memo) ==
  [q |-> q, w |-> w, usingCTE |-> usingCTE, memo |-> memo, err |-> ""]

onSelect(s) == [q |-> s.q, memo |-> s.memo, err |-> s.err]

onWith(s) == [q |-> s.w, memo |-> s.memo, err |-> s.err]

toSelect(s, b) == [s EXCEPT !.q = b.q, !.memo = b.memo, !.err = b.err]

toWith(s, b) == [s EXCEPT !.w = b.q, !.memo = b.memo, !.err = b.err]

\* Lines 531-553: computed columns of the sort properties on withQuery.
RECURSIVE cteSortColumns(_, _, _)
cteSortColumns(b, self, kv) ==
  IF kv = <<>> \/ ~Ok(b) THEN b
  ELSE LET property == ownProperty(self, Head(kv).k)
           b1 == IF ~Found(property) THEN Throw(b, "TypeError")
                 ELSE computedColumn(b, self, property, tableize(self) \o ".",
                                     quote(property.columnName))
       IN  cteSortColumns(b1, self, Tail(kv))

\* Lines 556-582: the table's own columns on selectQuery.
RECURSIVE selectOwnColumns(_, _, _, _, _)
selectOwnColumns(b, self, properties, select, group) ==
  IF properties = <<>> \/ ~Ok(b) THEN b
  ELSE LET property == Head(properties)
           selectIsArray == select.t = "array"
           wanted ==
             /\ ~property.isHidden
             /\ \/ ~selectIsArray /\ ~property.isAggregate
                \/ property.name = "id" /\ ~Truthy(group)
                \/ Truthy(select) /\ <<property.name>> \in Range(select.items)
           b1 == IF ~wanted THEN b
                 ELSE IF isAllowed(property)
                 THEN [b EXCEPT !.q.columns =
                         Append(@, ColumnRef(tableize(self), property.columnName, ""))]
                 ELSE computedColumn(b, self, property, tableize(self) \o ".",
                                     quote(property.columnName))
       IN  selectOwnColumns(b1, self, Tail(properties), select, group)

isFetched(association, fetchAssociations) ==
  \/ association.autoFetch
  \/ Truthy(fetchAssociations) /\ association.name \in Range(fetchAssociations.items)

whereNames(whereMap, name) ==
  whereMap.t = "object" /\ HasKey(whereMap, name) /\ Truthy(Get(whereMap, name))

\* The association loop with every join put on selectQuery.
RECURSIVE selectAssociationsOnSelect(_, _, _, _, _, _, _)
selectAssociationsOnSelect(s, self, associations, whereMap, select, fetchAssociations, autoFetchDepth) ==
  IF associations = <<>> \/ s.err # "" THEN s
  ELSE LET association == Head(associations)
           s1 == IF isFetched(association, fetchAssociations)
                 THEN toSelect(s, addAssociation(onSelect(s), self, <<association>>,
                                                 select, autoFetchDepth))
                 ELSE IF whereMap.t # "object" THEN [s EXCEPT !.err = "TypeError"]
                 ELSE IF whereNames(whereMap, association.name)
                 THEN toSelect(s, addJoinStatement(onSelect(s), self, <<association>>))
                 ELSE s
       IN  selectAssociationsOnSelect(s1, self, Tail(associations), whereMap, select,
                                      fetchAssociations, autoFetchDepth)

\* Lines 584-598: the association loop.
RECURSIVE selectAssociations(_, _, _, _, _, _, _)
selectAssociations(s, self, associations, whereMap, select, fetchAssociations, autoFetchDepth) ==
  IF associations = <<>> \/ s.err # "" THEN s
  ELSE LET association == Head(associations)
           s1 == IF isFetched(association, fetchAssociations)
                 THEN toSelect(s, addAssociation(onSelect(s), self, <<association>>,
                                                 select, autoFetchDepth))
                 ELSE IF whereMap.t # "object" THEN [s EXCEPT !.err = "TypeError"]
                 ELSE IF whereNames(whereMap, association.name)
                 THEN IF s.usingCTE
                      THEN toWith(s, addJoinStatement(onWith(s), self, <<association>>))
                      ELSE toSelect(s, addJoinStatement(onSelect(s), self, <<association>>))
                 ELSE s
       IN  selectAssociations(s1, self, Tail(associations), whereMap, select,
                              fetchAssociations, autoFetchDepth)

\* The implicit sort given whether or not the statement is grouped.
sortOfGrouped(self, sort, group) ==
  IF Len(getAssociations(self)) > 0 /\ ~Truthy(sort) /\ hasId(self)
  THEN Obj(<<KV("id", Str("asc"))>>)
  ELSE sort

\* Lines 600-606: the implicit ascending sort by id.
sortOf(self, sort, group) ==
  IF Len(getAssociations(self)) > 0 /\ ~Truthy(sort) /\ hasId(self) /\ ~Truthy(group)
  THEN Obj(<<KV("id", Str("asc"))>>)
  ELSE sort

\* '' + group: a string as it is, an array as its items joined by commas.
groupText(group) == IF group.t = "string" THEN group.s ELSE JoinStrings(group.items, ",")

RECURSIVE groupByProperties(_, _, _, _)
groupByProperties(b, self, groupByPropertyNames, group) ==
  IF groupByPropertyNames = <<>> \/ ~Ok(b) THEN b
  ELSE LET property == getProperty(self, Head(groupByPropertyNames))
           b1 == IF ~Found(property)
                 THEN Throw(b, "Invalid group by property '" \o groupText(group) \o "'.")
                 ELSE [b EXCEPT !.q.groups = Append(@, Ref(tableize(self), property.columnName))]
       IN  groupByProperties(b1, self, Tail(groupByPropertyNames), group)

\* Lines 610-632.
addGroupClause(b, self, group) ==
  IF ~Ok(b) \/ ~Truthy(group) THEN b
  ELSE IF group.t = "string" THEN groupByProperties(b, self, <<group.s>>, group)
  ELSE IF group.t = "array" THEN groupByProperties(b, self, group.items, group)
  ELSE Throw(b, "Invalid groupBy. Please provider either an array or a string.")

\* Lines 520-529: selectQuery, and withQuery when limit or skip is given.
selectFrom(memo, name, usingCTE) ==
  Select(EmptyQuery(name),
         IF usingCTE THEN [EmptyQuery(name) EXCEPT !.columns = <<ColumnRef(name, "*", "")>>]
         ELSE NoQuery,
         usingCTE, memo)

withSortColumns(s, self, sort) ==
  IF ~(s.usingCTE /\ Truthy(sort)) THEN s
  ELSE IF sort.t # "object" THEN [s EXCEPT !.err = "TypeError"]
  ELSE toWith(s, cteSortColumns(onWith(s), self, sort.kv))

withOwnColumns(s, self, select, group) ==
  toSelect(s, selectOwnColumns(onSelect(s), self, getAllProperties(self), select, group))

withSort(s, self, sort) == toSelect(s, addSortClause(onSelect(s), self, sort))

withGroup(s, self, group) == toSelect(s, addGroupClause(onSelect(s), self, group))

paged(b, limit, skip) == addOffsetClause(addLimitClause(b, limit), skip)

\* Lines 634-670: sort, where, limit and offset go on withQuery when there
\* is one, and where, limit and offset on selectQuery when there is not.
selectStatement(s, name, self, whereMap, limit, skip, sort) ==
  IF s.usingCTE
  THEN builtCte(name,
                paged(whereIfGiven(addSortClause(onWith(s), self, sort), self, whereMap),
                      limit, skip),
                s.q)
  ELSE builtPlain(paged(whereIfGiven(onSelect(s), self, whereMap), limit, skip))

createSelectStatement(memo, self, whereMap, limit, skip, sort, group, select, fetchAssociations, autoFetchDepth) ==
  selectStatement(
    withGroup(
      withSort(
        selectAssociations(
          withOwnColumns(
            withSortColumns(selectFrom(memo, tableize(self), limit # 0 \/ skip # 0),
                            self, sort),
            self, select, group),
          self, getAssociations(self), whereMap, select, fetchAssociations, autoFetchDepth),
        self, sortOf(self, sort, group)),
      self, group),
    tableize(self), self, whereMap, limit, skip, sortOf(self, sort, group))

searchWhere(self, searchText, where) ==
  LET whereMap == IF Truthy(where) THEN where ELSE Obj(<<>>)
      ids == Builder([EmptyQuery(tableize(self)) EXCEPT
                        !.columns = <<ColumnRef("", "id", "")>>,
                        !.wheres = <<WhereRaw("_search @@ to_tsquery(?)", Ref("", "_search"),
                                              NoRef, searchText)>>])
  IN  IF whereMap.t # "object" THEN whereMap
      ELSE Obj(assign(whereMap.kv, "id", Obj(<<KV("$in", ids)>>)))

\* The map the caller passed as it is after line 513: whereMap is the caller's
\* own object whenever where is truthy.
whereAfterSearch(self, searchText, where) ==
  IF Truthy(where) THEN searchWhere(self, searchText, where) ELSE where

createSearchStatement(memo, self, searchText, where, limit, skip, sort, group, select, fetchAssociations, autoFetchDepth) ==
  createSelectStatement(memo, self, searchWhere(self, searchText, where), limit, skip,
                        sort, group, select, fetchAssociations, autoFetchDepth)

idInT == Where("inCte", Ref("", "id"), "in", Null)

\* (limit || skip) && this.getProperty('id')
paginatedByRange(self, limit, skip, sort) ==
  (limit # 0 \/ skip # 0) /\ hasId(self)

paginated(self, limit, skip, sort) ==
  (limit # 0 \/ skip # 0 \/ Truthy(sort)) /\ hasId(self)

\* knex.from(this.name).select(), sharing the properties' memoized sqlish.
innerQuery(b, name) == [Build(EmptyQuery(name), b.memo) EXCEPT !.err = b.err]

restricted(q) == [q EXCEPT !.wheres = Append(@, idInT)]

\* Lines 991-1008, after deleteQuery has its RETURNING.
deleteStatement(d, self, whereMap, limit, skip, sort) ==
  IF paginated(self, limit, skip, sort)
  THEN builtCte("t",
                paged(addSortClause(addWhereClause(innerQuery(d, tableize(self)), self,
                                                   whereMap),
                                    self, sort),
                      limit, skip),
                restricted(d.q))
  ELSE builtPlain(addWhereClause(d, self, whereMap))

createDeleteStatement(memo, self, whereMap, limit, skip, sort) ==
  deleteStatement(addReturningClause(
                    Build([EmptyQuery(tableize(self)) EXCEPT !.method = "delete"], memo),
                    self),
                  self, whereMap, limit, skip, sort)

\* Lines 1017-1031, after updateQuery has its SET and RETURNING.
updateStatement(u, self, whereMap, limit, skip, sort) ==
  IF paginated(self, limit, skip, sort)
  THEN builtCte("t",
                addWhereClause(paged(addSortClause(innerQuery(u, tableize(self)), self, sort),
                                     limit, skip),
                               self, whereMap),
                restricted(u.q))
  ELSE builtPlain(addWhereClause(u, self, whereMap))

createUpdateStatement(memo, self, whereMap, setMap, limit, skip, sort) ==
  updateStatement(addReturningClause(
                    addSetClause(Build(EmptyQuery(tableize(self)), memo), self, setMap),
                    self),
                  self, whereMap, limit, skip, sort)

createInsertStatement(memo, self, setMap) ==
  builtPlain(addReturningClause(
               addInsertClause(Build(EmptyQuery(tableize(self)), memo), self, setMap),
               self))

(***************************************************************************)
(* Schema statements.  They read property.clauses, the live list.          *)
(***************************************************************************)
firstClause(list) == IF list = <<>> THEN "undefined" ELSE list[1]

\* list.splice(1): removes and returns everything after the first element.
spliced(list) == IF list = <<>> THEN <<>> ELSE Tail(list)

afterSplice(list) == IF list = <<>> THEN <<>> ELSE <<list[1]>>

\* One entry of the columns list of a schema statement: the text
\* <action> <quoted column> <definition>.
Clause(action, column, definition) ==
  [action |-> action, column |-> column, definition |-> definition]

RECURSIVE addedColumns(_, _)
addedColumns(cl, properties) ==
  IF properties = <<>> THEN <<>>
  ELSE LET property == Head(properties)
       IN  (IF isAllowed(property)
            THEN <<Clause("ADD COLUMN", quote(property.columnName),
                          JoinStrings(cl[keyOf(property)], " "))>>
            ELSE <<>>) \o addedColumns(cl, Tail(properties))

\* The columns dropped under the properties' names.
RECURSIVE removedColumnsByName(_)
removedColumnsByName(properties) ==
  IF properties = <<>> THEN <<>>
  ELSE LET property == Head(properties)
       IN  (IF isAllowed(property)
            THEN <<Clause("DROP COLUMN", quote(property.name), "")>>
            ELSE <<>>) \o removedColumnsByName(Tail(properties))

RECURSIVE removedColumns(_)
removedColumns(properties) ==
  IF properties = <<>> THEN <<>>
  ELSE LET property == Head(properties)
       IN  (IF isAllowed(property)
            THEN <<Clause("DROP COLUMN", quote(property.columnName), "")>>
            ELSE <<>>) \o removedColumns(Tail(properties))

RECURSIVE changedColumns(_, _)
changedColumns(cl, properties) ==
  IF properties = <<>> THEN [lines |-> <<>>, clauses |-> cl]
  ELSE LET property == Head(properties)
           own == cl[keyOf(property)]
           line == Clause("ALTER COLUMN", quote(property.columnName),
                          "TYPE " \o firstClause(own) \o " SET "
                            \o JoinStrings(spliced(own), " "))
           cl1 == IF isAllowed(property)
                  THEN [cl EXCEPT ![keyOf(property)] = afterSplice(own)]
                  ELSE cl
           rest == changedColumns(cl1, Tail(properties))
       IN  [rest EXCEPT !.lines = (IF isAllowed(property) THEN <<line>> ELSE <<>>) \o @]

alterStatement(cl, self, addedProperties, removedProperties, changedProperties) ==
  LET changed == changedColumns(cl, changedProperties)
  IN  [statement |-> Raw("ALTER TABLE " \o getName(self),
                         addedColumns(cl, addedProperties)
                           \o removedColumns(removedProperties) \o changed.lines),
       clauses |-> changed.clauses]

createStatement(cl, self) ==
  Raw("CREATE TABLE " \o getName(self),
      LET allowed == SelectSeq(getAllProperties(self), isAllowed)
      IN  [i \in 1..Len(allowed) |->
             Clause("", quote(allowed[i].columnName), JoinStrings(cl[keyOf(allowed[i])], " "))])

(***************************************************************************)
(* The Models registry (lib/modules/models/index.js).  A registry is the   *)
(* Models object: internals with the order of its keys, the properties     *)
(* this[modelName] (named), _loaded, datastore and _activeMigration, the   *)
(* position of setup's promise chain, and what the collaborators were      *)
(* handed: the tasks of the active migration and the raw queries of the    *)
(* datastore.  made lists the constructors instantiated so far and linked  *)
(* the through models linked so far, each with the constructors that were  *)
(* still waiting in internals at that moment; registered holds the names   *)
(* of the constructors handed to Models.model.                             *)
(***************************************************************************)
MaxInstances == 3

RegistryNames == {"User", "Project", "Membership"}

Undefined == [kind |-> "undefined", name |-> "", id |-> 0, by |-> ""]

NullModel == [kind |-> "null", name |-> "", id |-> 0, by |-> ""]

\* The model's name, kept in this[modelName] until the model is loaded.
Placeholder(name) == [kind |-> "string", name |-> name, id |-> 0, by |-> ""]

\* A constructor handed to Models.model, and the one createModel writes.
Constructor(name) == [kind |-> "function", name |-> name, id |-> 0, by |-> "model"]

createdConstructor(name) == [kind |-> "function", name |-> name, id |-> 0, by |-> "createModel"]

Instance(modelConstructor, name, id) ==
  [kind |-> "model", name |-> name, id |-> id, by |-> modelConstructor.by]

isModel(value) == value.kind = "model"

truthy(value) == value.kind \notin {"undefined", "null"}

NoMigration == [active |-> FALSE, tasks |-> <<>>, created |-> <<>>, destroyed |-> <<>>]

ThroughKeys == { <<"Project", "users">>, <<"User", "projects">> }

NewRegistry ==
  [internals |-> [name \in RegistryNames |-> Undefined],
   order |-> <<>>,
   named |-> [name \in RegistryNames |-> Undefined],
   injector |-> [name \in RegistryNames |-> Undefined],
   datastoreModels |-> [name \in RegistryNames |-> Undefined],
   _loaded |-> FALSE,
   datastore |-> FALSE,
   _activeMigration |-> NoMigration,
   _authenticator |-> Undefined,
   _sqlMap |-> {},
   isSetupPrevented |-> FALSE,
   basePath |-> "",
   chain |-> "",
   throughPropertyName |-> [key \in ThroughKeys |-> ""],
   rawQueries |-> <<>>,
   made |-> [modelConstructor \in {Constructor(name) : name \in RegistryNames}
                                  \cup {createdConstructor(name) : name \in RegistryNames} |-> 0],
   linked |-> <<>>,
   registered |-> {},
   returned |-> Undefined,
   err |-> ""]

raise(r, message) == IF r.err = "" THEN [r EXCEPT !.err = message] ELSE r

failed(r) == r.err # ""

\* internals[modelName] = value, a new key going last in the key order.
setInternal(r, modelName, value) ==
  [r EXCEPT !.internals[modelName] = value,
            !.order = IF modelName \in Range(@) THEN @ ELSE Append(@, modelName)]

isAuthenticator(modelName) == modelName = "User"

isThroughModel(modelName) ==
  \E key \in ThroughKeys : ownProperty(key[1], key[2]).through = modelName

\* model.options.throughProperty and model.options.throughAssociatedProperty.
throughProperty(modelName) == ownProperty("Project", "users")

throughAssociatedProperty(modelName) == ownProperty("User", "projects")

findModel(r, modelName) == r.named[modelName]

referenceName(property) == property.associatedModel

waiting(r) == {name \in RegistryNames : r.internals[name].kind = "function"}

RECURSIVE linkThrough(_, _, _, _, _)
\* The forEach over the through model's properties: the last property that
\* refers to either side names it.
linkThrough(names, throughModelProperties, property, associatedProperty, associatedModel) ==
  IF throughModelProperties = <<>> THEN names
  ELSE
    LET through == Head(throughModelProperties)
        linked ==
          IF referenceName(through) = property.model
          THEN [names EXCEPT ![keyOf(property)] = through.name]
          ELSE IF referenceName(through) = associatedModel.name
          THEN [names EXCEPT ![keyOf(associatedProperty)] = through.name]
          ELSE names
    IN  linkThrough(linked, Tail(throughModelProperties), property, associatedProperty,
                    associatedModel)

postInstallModel(r, model) ==
  IF failed(r) THEN r
  ELSE
    LET authenticated ==
          IF isAuthenticator(model.name) THEN [r EXCEPT !._authenticator = model] ELSE r
    IN  IF ~isThroughModel(model.name) THEN authenticated
        ELSE
          LET property == throughProperty(model.name)
              associatedProperty == throughAssociatedProperty(model.name)
              associatedModel == findModel(authenticated, getAssociatedModel(property))
          IN  IF ~isModel(associatedModel)
              THEN raise(authenticated, "TypeError")
              ELSE [authenticated EXCEPT
                      !.throughPropertyName =
                         linkThrough(authenticated.throughPropertyName,
                                     getAllProperties(model.name), property,
                                     associatedProperty, associatedModel),
                      !.linked = Append(@, [model |-> model, chain |-> authenticated.chain,
                                            waiting |-> waiting(authenticated)])]

_registerModel(r, model) ==
  [setInternal(r, model.name, model) EXCEPT
     !.named[model.name] = model,
     !.injector[model.name] = model,
     !.datastoreModels[model.name] = IF r.datastore THEN model ELSE @]

instances(r, name) == r.made[Constructor(name)] + r.made[createdConstructor(name)]

Instances(r) ==
  LET seen == {name \in RegistryNames : instances(r, name) > 0}
      RECURSIVE sum(_)
      sum(names) ==
        IF names = {} THEN 0
        ELSE LET name == CHOOSE n \in names : TRUE
             IN  instances(r, name) + sum(names \ {name})
  IN  sum(seen)

_addModel(r, modelConstructor, name, force) ==
  IF failed(r) THEN r
  ELSE IF modelConstructor.kind # "function"
  THEN raise(r, "Models#_addModel expects a function, but 'object' given.")
  ELSE IF truthy(r.named[name]) /\ r.named[name] # Placeholder(name) /\ ~force
  THEN raise(r, "Cannot create model '" \o name \o "' because it already exists.")
  ELSE
    LET model == Instance(modelConstructor, name, instances(r, name) + 1)
    IN  [_registerModel(r, model) EXCEPT !.made[modelConstructor] = @ + 1]

addModelConstructorStored(r, modelConstructor) ==
  IF failed(r) THEN r
  ELSE [setInternal(r, modelConstructor.name, modelConstructor) EXCEPT
          !.injector[modelConstructor.name] = Placeholder(modelConstructor.name),
          !.named[modelConstructor.name] = Placeholder(modelConstructor.name),
          !.registered = @ \cup {modelConstructor.name}]

addModelConstructor(r, modelConstructor) ==
  IF failed(r) THEN r
  ELSE
    LET modelName == modelConstructor.name
        injected == [r EXCEPT !.injector[modelName] = Placeholder(modelName)]
        taken(q) == IF failed(q) THEN q ELSE [q EXCEPT !.registered = @ \cup {modelName}]
    IN  IF r._loaded
        THEN LET added == taken(_addModel(injected, modelConstructor, modelName, FALSE))
             IN  postInstallModel(added, added.internals[modelName])
        ELSE taken([setInternal(injected, modelName, modelConstructor) EXCEPT
                      !.named[modelName] = Placeholder(modelName)])

appModel(r, modelConstructor) ==
  IF modelConstructor.name = "Model"
  THEN raise(r, "The name \"Model\" is reserved unfortunately.")
  ELSE addModelConstructor(r, modelConstructor)

RECURSIVE addModels(_, _)
\* The first loop of setup's last callback, over the keys of internals.
addModels(r, names) ==
  IF names = <<>> \/ failed(r) THEN r
  ELSE addModels(_addModel(r, r.internals[Head(names)], Head(names), FALSE), Tail(names))

RECURSIVE postInstallModels(_, _)
\* The second loop of setup's last callback.
postInstallModels(r, names) ==
  IF names = <<>> \/ failed(r) THEN r
  ELSE postInstallModels(postInstallModel(r, r.internals[Head(names)]), Tail(names))

RECURSIVE installedInOnePass(_, _)
installedInOnePass(r, names) ==
  IF names = <<>> \/ failed(r) THEN r
  ELSE LET added == _addModel(r, r.internals[Head(names)], Head(names), FALSE)
       IN  installedInOnePass(postInstallModel(added, added.internals[Head(names)]),
                              Tail(names))

loadedInOnePass(r) == installedInOnePass([r EXCEPT !._loaded = TRUE], r.order)

\* The last callback of setup's chain.
loaded(r) ==
  LET marked == [r EXCEPT !._loaded = TRUE]
      added == addModels(marked, marked.order)
  IN  postInstallModels(added, added.order)

getModel(r, modelName) ==
  LET found == findModel(r, modelName)
  IN  IF ~truthy(found)
      THEN raise(r, "Could not find model '" \o modelName \o "' in models.")
      ELSE [r EXCEPT !.returned = found]

loadModelConstructor(r, modelConstructor) ==
  IF ~r.datastore THEN raise(r, "Datastore is not initialized yet.")
  ELSE IF modelConstructor.kind # "function"
  THEN raise(r, "Trying to load invalid model constructor.")
  ELSE [setInternal(r, modelConstructor.name, modelConstructor) EXCEPT
          !.named[modelConstructor.name] = Placeholder(modelConstructor.name)]

destroyModel(r, modelName) ==
  LET found == r.named[modelName]
  IN  IF ~truthy(found) THEN raise(r, "Cannot find model '" \o modelName \o "'.")
      ELSE IF ~isModel(found) THEN raise(r, "TypeError")
      ELSE [r EXCEPT !.named[modelName] = NullModel,
                     !._activeMigration.destroyed =
                        IF r._activeMigration.active THEN Append(@, found) ELSE @]

ModelPrototype == {"getName", "find", "create"}

createModel(r, modelName, properties, force) ==
  LET added == _addModel(r, createdConstructor(modelName), modelName, force)
      installed == postInstallModel(added, added.named[modelName])
  IN  IF properties \cap ModelPrototype # {}
      THEN raise(r, "'" \o (CHOOSE name \in properties \cap ModelPrototype : TRUE)
                      \o "' already exists on Model.prototype.")
      ELSE IF failed(installed) THEN installed
      ELSE [installed EXCEPT
              !._activeMigration.created =
                 IF installed._activeMigration.active
                 THEN Append(@, installed.named[modelName]) ELSE @]

\* forEach(callback) with a callback that calls a method of the model.
forEachModel(r) ==
  IF \E i \in 1..Len(r.order) : ~isModel(r.internals[r.order[i]])
  THEN raise(r, "TypeError") ELSE r

setActiveMigration(r, migration) ==
  forEachModel([r EXCEPT !._activeMigration =
                  IF migration THEN [NoMigration EXCEPT !.active = TRUE] ELSE NoMigration])

addTask(r, method, arguments) ==
  [r EXCEPT !._activeMigration.tasks = Append(@, [method |-> method, args |-> arguments])]

rawQuery(r, query) ==
  IF ~r.datastore THEN raise(r, "TypeError")
  ELSE [r EXCEPT !.rawQueries = Append(@, query)]

executeDirectly(r, query, parameters) == rawQuery(r, query)

execute(r, query, parameters) ==
  IF r._activeMigration.active
  THEN addTask(r, "execute", <<query, parameters>>)
  ELSE rawQuery(r, query)

_sql(r, hash, query) ==
  LET noted == [r EXCEPT !._sqlMap = @ \cup {hash}]
  IN  IF noted._activeMigration.active
      THEN addTask(noted, "_sql", <<hash, query>>)
      ELSE rawQuery(noted, query)

(***************************************************************************)
(* State: the arguments the caller holds, the properties' live clauses and *)
(* memoized sqlish text, the last call made on the Table, the queries      *)
(* handed to the datastore with their outcomes, and the table contents.    *)
(***************************************************************************)
MaxLimit == 2

MaxSkip == 1

DefaultAutoFetchDepth == 5

NoArgs ==
  [self |-> "User", whereMap |-> Obj(<<>>), setMap |-> Null, limit |-> 0, skip |-> 0,
   sort |-> Null, group |-> Null, select |-> Null, fetchAssociations |-> Null,
   autoFetchDepth |-> 2, propertyName |-> "", searchText |-> Str("fire"),
   changedProperties |-> <<>>, schemaName |-> "", properties |-> <<>>]

NoRequest ==
  [at |-> "", model |-> "", body |-> Null, given |-> Null, _authenticator |-> Null,
   canCreate |-> FALSE, authenticatorModel |-> FALSE, handed |-> Null, instance |-> Null,
   session |-> "", status |-> 0, message |-> ""]

NoCall == [op |-> "", statement |-> NoStatement, err |-> "", returned |-> 0, at |-> ""]

InitClauses == [key \in PropertyKeys |-> ownProperty(key[1], key[2]).declaredClauses]

InitSqlish == [key \in PropertyKeys |-> ownProperty(key[1], key[2]).declaredSqlish]

NoRows == [name \in {tableize(m) : m \in Models} |-> <<>>]

\* The caller-owned semantic maps the builders are driven with.
WhereMaps ==
  { Null,
    Obj(<<>>),
    Obj(<<KV("name", Num(1))>>),
    Obj(<<KV("id", Obj(<<KV("$gte", Num(2))>>))>>),
    Obj(<<KV("bogus", Num(1))>>),
    Obj(<<KV("posts", Num(1))>>),
    Obj(<<KV("profile", Num(1))>>),
    Obj(<<KV("projects", Num(1))>>),
    Obj(<<KV("posts.title", Num(1))>>),
    Obj(<<KV("$or", Arr(<<Obj(<<KV("name", Num(1))>>), Obj(<<KV("score", Num(2))>>)>>))>>),
    Obj(<<KV("$or", Arr(<<Obj(<<KV("name", Num(1))>>), Obj(<<KV("bogus", Num(2))>>)>>))>>) }

Sorts ==
  { Null,
    Obj(<<KV("name", Str("desc"))>>),
    Obj(<<KV("postsCount", Num(1))>>),
    Obj(<<KV("bogus", Str("asc"))>>) }

Groups == { Null, Str("name"), Arr(<<"name", "bogus">>) }

Selects == { Null, Arr(<<<<"name">>, <<"postsCount">>>>), Arr(<<<<"posts", "*">>>>) }

Fetches == { Null, Arr(<<"posts">>) }

Depths == { 0, 2, DefaultAutoFetchDepth }

SetMaps ==
  { Null,
    Obj(<<KV("name", Num(1))>>),
    Obj(<<KV("score", Obj(<<KV("$inc", Num(1))>>))>>),
    Obj(<<KV("name", Num(2)), KV("score", Obj(<<KV("$decr", Num(2))>>))>>),
    Obj(<<KV("score", Obj(<<KV("$inc", Num(1)), KV("$mul", Num(2))>>))>>),
    Obj(<<KV("postsCount", Obj(<<KV("$inc", Num(1))>>))>>),
    Obj(<<KV("bogus", Num(1))>>) }

ChangedProperties == { <<>>, <<"name">>, <<"score", "posts">> }

Limits == 0..MaxLimit

Skips == 0..MaxSkip

\* The argument combinations the builders are called with: filters with
\* pagination, statement shapes, mutations, schema changes.
FilterArgs ==
  { [NoArgs EXCEPT !.self = self, !.whereMap = whereMap, !.limit = limit, !.skip = skip,
                   !.fetchAssociations = fetchAssociations] :
      self \in Models, whereMap \in WhereMaps, limit \in Limits, skip \in Skips,
      fetchAssociations \in Fetches }

ShapeArgs ==
  { [NoArgs EXCEPT !.self = self, !.limit = limit, !.sort = sort, !.group = group,
                   !.select = select, !.autoFetchDepth = autoFetchDepth] :
      self \in {"User", "Post", "Log"}, limit \in {0, 1}, sort \in Sorts, group \in Groups,
      select \in Selects, autoFetchDepth \in Depths }

MutationArgs ==
  { [NoArgs EXCEPT !.self = self, !.whereMap = whereMap, !.setMap = setMap,
                   !.limit = limit, !.sort = sort, !.propertyName = propertyName,
                   !.changedProperties = changedProperties] :
      self \in {"User", "Log"}, whereMap \in {Obj(<<>>), Obj(<<KV("name", Num(1))>>)},
      setMap \in SetMaps, limit \in {0, 1}, sort \in {Null, Obj(<<KV("name", Str("desc"))>>)},
      propertyName \in {"", "bogus"}, changedProperties \in ChangedProperties }

BuildArgs == FilterArgs \cup ShapeArgs \cup MutationArgs

InitWith(inputs, contents, modes) ==
  /\ models = InstalledModels
  /\ registry = NewRegistry
  /\ request = NoRequest
  /\ deferred \in modes
  /\ args \in inputs
  /\ clauses = InitClauses
  /\ sqlish = InitSqlish
  /\ call = NoCall
  /\ sent = <<>>
  /\ db \in contents
  /\ outcome = <<>>

Called(op, built) == [NoCall EXCEPT !.op = op, !.statement = built.statement, !.err = built.err]

Builds(op, built) ==
  /\ call' = Called(op, built)
  /\ sqlish' = built.memo
  /\ UNCHANGED <<models, registry, request, deferred, args, clauses, sent, db, outcome>>

CreateSelectStatement ==
  Builds("createSelectStatement",
         createSelectStatement(sqlish, args.self, args.whereMap, args.limit, args.skip,
                               args.sort, args.group, args.select, args.fetchAssociations,
                               args.autoFetchDepth))

CreateSearchStatement ==
  LET built == createSearchStatement(sqlish, args.self, args.searchText, args.whereMap,
                                     args.limit, args.skip, args.sort, args.group,
                                     args.select, args.fetchAssociations, args.autoFetchDepth)
  IN  /\ call' = Called("createSearchStatement", built)
      /\ sqlish' = built.memo
      /\ args' = [args EXCEPT !.whereMap = whereAfterSearch(args.self, args.searchText, @)]
      /\ UNCHANGED <<models, registry, request, deferred, clauses, sent, db, outcome>>

CreateCountStatement ==
  Builds("createCountStatement",
         createCountStatement(sqlish, args.self, args.propertyName, args.whereMap))

CreateDeleteStatement ==
  Builds("createDeleteStatement",
         createDeleteStatement(sqlish, args.self, args.whereMap, args.limit, args.skip,
                               args.sort))

CreateUpdateStatement ==
  Builds("createUpdateStatement",
         createUpdateStatement(sqlish, args.self, args.whereMap, args.setMap, args.limit,
                               args.skip, args.sort))

CreateInsertStatement ==
  Builds("createInsertStatement", createInsertStatement(sqlish, args.self, args.setMap))

propertiesNamed(self, names) == [i \in 1..Len(names) |-> ownProperty(self, names[i])]

AlterStatement ==
  LET altered == alterStatement(clauses, args.self, <<>>, <<>>,
                                propertiesNamed(args.self, args.changedProperties))
  IN  /\ \A i \in 1..Len(args.changedProperties) :
           Found(ownProperty(args.self, args.changedProperties[i]))
      /\ call' = [NoCall EXCEPT !.op = "alterStatement", !.statement = altered.statement]
      /\ clauses' = altered.clauses
      /\ UNCHANGED <<models, registry, request, deferred, args, sqlish, sent, db, outcome>>

CreateStatement ==
  /\ call' = [NoCall EXCEPT !.op = "createStatement",
                            !.statement = createStatement(clauses, args.self)]
  /\ UNCHANGED <<models, registry, request, deferred, args, clauses, sqlish, sent, db, outcome>>

BuildNext ==
  \/ CreateSelectStatement
  \/ CreateCountStatement
  \/ CreateDeleteStatement
  \/ CreateUpdateStatement
  \/ CreateInsertStatement
  \/ AlterStatement
  \/ CreateStatement

BuildInit == InitWith(BuildArgs, {NoRows}, BOOLEAN)

SpecBuild == BuildInit /\ [][BuildNext]_vars

(***************************************************************************)
(* The datastore.  A table is the list of its rows in physical order, a    *)
(* row gives a number to each stored column.  answer is what PostgreSQL    *)
(* makes of a statement; it is defined for the statements Supported        *)
(* describes: joins on column equality, comparisons with numbers, IS NULL, *)
(* membership in the ids of "t", ORDER BY on columns, LIMIT and OFFSET.    *)
(***************************************************************************)
Nil == -1

storedColumns(model) ==
  {p.columnName : p \in {x \in Range(getAllProperties(model)) : isAllowed(x)}}

modelOf(table) == CHOOSE model \in Models : tableize(model) = table

columnsOf(table) == storedColumns(modelOf(table))

NullRow(table) == [c \in columnsOf(table) |-> Nil]

\* One row of the FROM table with the rows joined to it, by visible name.
Bind(as, row) == [as |-> as, row |-> row]

binding(env, name) == env[CHOOSE i \in 1..Len(env) : env[i].as = name].row

valueOf(env, ref) == binding(env, ref.table)[ref.column]

Operators == {"=", "!=", ">=", ">", "<", "<="}

\* A comparison with NULL is not true.
compare(op, a, b) ==
  /\ a # Nil
  /\ b # Nil
  /\ CASE op = "=" -> a = b
       [] op = "!=" -> a # b
       [] op = ">=" -> a >= b
       [] op = ">" -> a > b
       [] op = "<" -> a < b
       [] OTHER -> a <= b

RECURSIVE satisfies(_, _, _)
holds(env, term, tables) ==
  CASE term.type = "basic" -> compare(term.op, valueOf(env, term.ref), term.value.n)
    [] term.type = "null" -> valueOf(env, term.ref) = Nil
    [] term.type = "group" -> satisfies(env, term.sub, tables)
    [] OTHER -> \E i \in 1..Len(tables["t"]) : tables["t"][i]["id"] = env[1].row["id"]

\* t1 AND t2 OR t3 ...: AND binds tighter than OR, so the list is true when
\* every term of one of its runs of AND-ed terms is true.
satisfies(env, wheres, tables) ==
  \/ wheres = <<>>
  \/ \E i \in {k \in 1..Len(wheres) : k = 1 \/ wheres[k].bool = "or"} :
       \A j \in i..Len(wheres) :
         (\A k \in (i + 1)..j : wheres[k].bool = "and") => holds(env, wheres[j], tables)

RECURSIVE Flatten(_)
Flatten(lists) == IF lists = <<>> THEN <<>> ELSE Head(lists) \o Flatten(Tail(lists))

joinRows(env, join, tables) ==
  LET name == visibleName(join)
      on(row) == LET e == Append(env, Bind(name, row))
                 IN  compare("=", valueOf(e, join.left), valueOf(e, join.right))
      matches == SelectSeq(tables[join.table], on)
  IN  IF matches # <<>> THEN [i \in 1..Len(matches) |-> Append(env, Bind(name, matches[i]))]
      ELSE IF join.type = "leftOuterJoin" THEN <<Append(env, Bind(name, NullRow(join.table)))>>
      ELSE <<>>

RECURSIVE joined(_, _, _)
joined(envs, joins, tables) ==
  IF joins = <<>> THEN envs
  ELSE joined(Flatten([i \in 1..Len(envs) |-> joinRows(envs[i], Head(joins), tables)]),
              Tail(joins), tables)

RECURSIVE before(_, _, _)
before(a, b, orders) ==
  IF orders = <<>> THEN FALSE
  ELSE LET x == valueOf(a, Head(orders).ref)
           y == valueOf(b, Head(orders).ref)
       IN  IF x = y THEN before(a, b, Tail(orders))
           ELSE IF Head(orders).direction = "ASC" THEN x < y
           ELSE x > y

RECURSIVE inserted(_, _, _)
inserted(sorted, env, orders) ==
  IF sorted = <<>> THEN <<env>>
  ELSE IF before(env, Head(sorted), orders) THEN <<env>> \o sorted
  ELSE <<Head(sorted)>> \o inserted(Tail(sorted), env, orders)

\* ORDER BY; rows that compare equal keep their physical order.
RECURSIVE ordered(_, _)
ordered(envs, orders) ==
  IF envs = <<>> THEN <<>>
  ELSE inserted(ordered(SubSeq(envs, 1, Len(envs) - 1), orders), envs[Len(envs)], orders)

\* OFFSET and LIMIT; no limit was set when limit is 0.
window(rows, limit, offset) ==
  SubSeq(rows, offset + 1,
         IF limit > 0 /\ offset + limit < Len(rows) THEN offset + limit ELSE Len(rows))

fromRows(q, tables) == [i \in 1..Len(tables[q.from]) |-> <<Bind(q.from, tables[q.from][i])>>]

selected(q, tables) ==
  window(ordered(SelectSeq(joined(fromRows(q, tables), q.joins, tables),
                           LAMBDA env : satisfies(env, q.wheres, tables)),
                 q.orders),
         q.limit, q.offset)

rootRows(envs) == [i \in 1..Len(envs) |-> envs[i][1].row]

\* WITH name AS (query): inside it the name is still the table.
withTables(statement, tables) ==
  IF statement.kind = "cte"
  THEN (statement.name :> rootRows(selected(statement.with, tables))) @@ tables
  ELSE tables

references(property) ==
  /\ property.belongsTo # ""
  /\ \E i \in 1..Len(property.declaredClauses) :
       property.declaredClauses[i]
         = "REFERENCES " \o quote(tableize(property.associatedModel)) \o "(id)"

\* A row some REFERENCES column still points at.
referenced(table, row, tables) ==
  \E key \in PropertyKeys :
    LET property == ownProperty(key[1], key[2])
        rows == tables[tableize(key[1])]
    IN  /\ references(property)
        /\ tableize(property.associatedModel) = table
        /\ \E i \in 1..Len(rows) : rows[i][property.columnName] = row["id"]

assigned(row, update) ==
  [c \in DOMAIN row |->
     IF \E i \in 1..Len(update) : update[i].k = c
     THEN update[CHOOSE i \in 1..Len(update) : update[i].k = c].v.n
     ELSE row[c]]

Answer(status, rows, affected, tables) ==
  [status |-> status, rows |-> rows, affected |-> affected, tables |-> tables]

deleted(q, tables, hits, kept) ==
  IF \E i \in 1..Len(hits) : referenced(q.from, hits[i], tables)
  THEN Answer("rejected", <<>>, 0, tables)
  ELSE Answer("resolved", <<>>, Len(hits), [tables EXCEPT ![q.from] = kept])

hit(q, scope, row) == satisfies(<<Bind(q.from, row)>>, q.wheres, scope)

answerIn(q, scope, tables) ==
  CASE q.method = "select" -> Answer("resolved", selected(q, scope), 0, tables)
    [] q.method = "delete" ->
         deleted(q, tables, SelectSeq(tables[q.from], LAMBDA row : hit(q, scope, row)),
                 SelectSeq(tables[q.from], LAMBDA row : ~hit(q, scope, row)))
    [] OTHER ->
         Answer("resolved", <<>>,
                Len(SelectSeq(tables[q.from], LAMBDA row : hit(q, scope, row))),
                [tables EXCEPT ![q.from] =
                   [i \in 1..Len(@) |->
                      IF hit(q, scope, @[i]) THEN assigned(@[i], q.update) ELSE @[i]]])

answer(statement, tables) == answerIn(statement.main, withTables(statement, tables), tables)

tableOf(q, name) ==
  IF name = q.from THEN q.from
  ELSE q.joins[CHOOSE i \in 1..Len(q.joins) : visibleName(q.joins[i]) = name].table

resolves(q, ref) ==
  /\ ref.table \in Visible(q)
  /\ ref.column \in columnsOf(tableOf(q, ref.table))

RECURSIVE evaluates(_, _)
evaluates(q, term) ==
  CASE term.type = "basic" ->
         term.value.t = "number" /\ term.op \in Operators /\ resolves(q, term.ref)
    [] term.type = "null" -> resolves(q, term.ref)
    [] term.type = "group" ->
         term.sub # <<>> /\ \A i \in 1..Len(term.sub) : evaluates(q, term.sub[i])
    [] term.type = "inCte" -> term.bool = "and" /\ q.joins = <<>>
    [] OTHER -> FALSE

supportedQuery(q) ==
  /\ q.method \in {"select", "delete", "update"}
  /\ q.from \in DOMAIN NoRows
  /\ Cardinality(Visible(q)) = Len(q.joins) + 1
  /\ \A i \in 1..Len(q.joins) :
       /\ q.joins[i].table \in DOMAIN NoRows
       /\ resolves(q, q.joins[i].left)
       /\ resolves(q, q.joins[i].right)
  /\ \A i \in 1..Len(q.wheres) : evaluates(q, q.wheres[i])
  /\ \A i \in 1..Len(q.orders) : resolves(q, q.orders[i].ref)
  /\ q.groups = <<>>
  /\ q.counters = <<>>
  /\ \A i \in 1..Len(q.update) : q.update[i].v.t = "number"
  /\ q.method = "update" => q.update # <<>>

Supported(statement) ==
  /\ statement.kind \in {"query", "cte"}
  /\ supportedQuery(statement.main)
  /\ statement.kind = "cte" =>
       /\ supportedQuery(statement.with)
       /\ statement.with.method = "select"
       /\ statement.name \in {"t", statement.main.from}
  /\ (\E i \in 1..Len(statement.main.wheres) : statement.main.wheres[i].type = "inCte")
       => statement.kind = "cte" /\ statement.name = "t"

(***************************************************************************)
(* Built statements run against table contents.                            *)
(***************************************************************************)
MaxRows == 3

MaxChildren == 2

ascending(n) == [i \in 1..n |-> i]

descending(n) == [i \in 1..n |-> n + 1 - i]

UserRow(id) == [id |-> id, name |-> 2 - (id % 2), score |-> 0]

PostRow(id, author) == [id |-> id, title |-> 2 - (id % 2), author_id |-> author]

LogRow(n) == [message |-> 2 - (n % 2), level |-> n]

\* Every post by the first user, or the posts dealt out over the users.
authorOf(dealt, post, n) == IF dealt THEN 1 + ((post - 1) % n) ELSE 1

Content(order, k, dealt) ==
  LET n == Len(order)
  IN  [users |-> [i \in 1..n |-> UserRow(order[i])],
       posts |-> [j \in 1..k |-> PostRow(j, authorOf(dealt, j, n))],
       profiles |-> IF n > 0 THEN <<[id |-> 1, bio |-> 1, user_id |-> 1]>> ELSE <<>>,
       memberships |-> IF n > 0 THEN <<[id |-> 1, user_id |-> 1, project_id |-> 1]>>
                       ELSE <<>>,
       projects |-> <<[id |-> 1, title |-> 1]>>,
       logs |-> [i \in 1..n |-> LogRow(order[i])]]

Contents ==
  UNION {UNION {{Content(order, k, dealt) :
                   k \in (IF n > 0 THEN 0..MaxChildren ELSE {0}), dealt \in BOOLEAN} :
                 order \in {ascending(n), descending(n)}} :
         n \in 0..MaxRows}

filterColumn(self) ==
  CASE self = "User" -> "name"
    [] self = "Post" -> "title"
    [] OTHER -> "message"

PageArgsOf(self) ==
  { [NoArgs EXCEPT !.self = self, !.whereMap = whereMap, !.limit = limit, !.skip = skip,
                   !.sort = sort, !.fetchAssociations = fetchAssociations,
                   !.setMap = Obj(<<KV(filterColumn(self), Num(2))>>),
                   !.autoFetchDepth = 1] :
      whereMap \in {Obj(<<>>), Obj(<<KV(filterColumn(self), Num(1))>>)},
      limit \in Limits, skip \in Skips,
      sort \in {Null, Obj(<<KV(filterColumn(self), Str("desc"))>>)},
      fetchAssociations \in (IF self = "User" THEN Fetches ELSE {Null}) }

PageArgs == UNION {PageArgsOf(self) : self \in {"User", "Post", "Log"}}

Answered(statement, answered) ==
  /\ sent' = <<statement>>
  /\ outcome' = <<[status |-> answered.status, rows |-> answered.rows,
                   affected |-> answered.affected]>>
  /\ db' = answered.tables
  /\ UNCHANGED <<models, registry, request, deferred, args, clauses, sqlish, call>>

\* Lines 76-78: the datastore runs the statement the builder returned.
Query ==
  /\ call.op \in {"createSelectStatement", "createDeleteStatement", "createUpdateStatement"}
  /\ call.err = ""
  /\ Supported(call.statement)
  /\ Answered(call.statement, answer(call.statement, db))

PageInit == InitWith(PageArgs, Contents, {TRUE})

PageNext ==
  \/ CreateSelectStatement
  \/ CreateDeleteStatement
  \/ CreateUpdateStatement
  \/ Query

SpecPage == PageInit /\ [][PageNext]_vars

(***************************************************************************)
(* Filters run against table contents: SELECT statements built from        *)
(* whereMaps with $or branches over the stored properties.                 *)
(***************************************************************************)
Either(branches) == Obj(<<KV("$or", Arr(branches))>>)

OrMaps(self) ==
  IF self = "User"
  THEN { Either(<<Obj(<<KV("name", Num(2))>>), Obj(<<KV("id", Obj(<<KV("$gte", Num(3))>>))>>)>>),
         Either(<<Obj(<<KV("name", Num(1)), KV("id", Obj(<<KV("$lt", Num(3))>>))>>),
                  Obj(<<KV("name", Num(2))>>)>>),
         Either(<<Obj(<<KV("id", Num(3))>>), Obj(<<KV("score", Num(1))>>),
                  Obj(<<KV("id", Num(1))>>)>>) }
  ELSE { Either(<<Obj(<<KV("title", Num(2))>>), Obj(<<KV("id", Obj(<<KV("$lte", Num(1))>>))>>)>>) }

\* An operator object whose operand is null.
NullMap(key) == Obj(<<KV("id", Obj(<<KV(key, Null)>>))>>)

NullMaps(self) == {NullMap(key) : key \in DOMAIN WHERE_TRANSFORMER \cup {"$bogus"}}

\* The kinds of filter value: scalar, null, array, operator object.
FilterValues == {Num(1), Null, Arr(<<Num(1), Num(2)>>), Obj(<<KV("$gte", Num(1))>>)}

\* Filters on the property of Log that carries a rawWhere template.
RawMaps == {Obj(<<KV("level", whereValue)>>) : whereValue \in FilterValues}

\* Plain filters, one of them on id.
PlainMaps == {Obj(<<>>), Obj(<<KV("name", Num(1))>>), Obj(<<KV("id", Obj(<<KV("$gte", Num(2))>>))>>)}

WhereMapsOf(self) ==
  CASE self = "Log" -> RawMaps
    [] self = "User" -> OrMaps(self) \cup NullMaps(self) \cup PlainMaps
    [] OTHER -> OrMaps(self) \cup NullMaps(self)

WhereArgsOf(self) ==
  { [NoArgs EXCEPT !.self = self, !.whereMap = whereMap, !.sort = sort,
                   !.fetchAssociations = fetchAssociations, !.autoFetchDepth = 1] :
      whereMap \in WhereMapsOf(self),
      sort \in {Null, Obj(<<KV(filterColumn(self), Str("desc"))>>)},
      fetchAssociations \in (IF self = "User" THEN Fetches ELSE {Null}) }

WhereArgs == UNION {WhereArgsOf(self) : self \in {"User", "Post", "Log"}}

WhereInit == InitWith(WhereArgs, Contents, BOOLEAN)

WhereNext ==
  \/ CreateSelectStatement
  \/ CreateSearchStatement
  \/ Query

SpecWhere == WhereInit /\ [][WhereNext]_vars

(***************************************************************************)
(* SELECT statements built for every kind of group value.                  *)
(***************************************************************************)
GroupValues ==
  { Null, Str("name"), Arr(<<"name", "score">>), Str(""), Arr(<<>>), Num(1), Obj(<<>>),
    Str("bogus"), Arr(<<"name", "bogus">>) }

GroupArgs ==
  { [NoArgs EXCEPT !.self = self, !.limit = limit, !.sort = sort, !.group = group,
                   !.select = select] :
      self \in {"User", "Log"}, limit \in {0, 1},
      sort \in {Null, Obj(<<KV("name", Str("desc"))>>)}, group \in GroupValues,
      select \in {Null, Arr(<<<<"name">>>>)} }

GroupInit == InitWith(GroupArgs, {NoRows}, BOOLEAN)

GroupNext ==
  \/ CreateSelectStatement
  \/ CreateCountStatement

SpecGroup == GroupInit /\ [][GroupNext]_vars

(***************************************************************************)
(* The operations of a Table: each builds its statement and hands it to    *)
(* the datastore, which answers later.                                     *)
(***************************************************************************)
MaxSent == 2

\* The statement goes to the datastore twice.
queryAgain(queries, statement) == queries \o <<statement, statement>>

\* Lines 76-78: this.datastore.query(query).
query(queries, statement) == Append(queries, statement)

ExecArgs ==
  { [NoArgs EXCEPT !.self = self, !.whereMap = whereMap, !.setMap = setMap,
                   !.limit = limit, !.autoFetchDepth = autoFetchDepth] :
      self \in {"User", "Log"},
      whereMap \in {Obj(<<>>), Obj(<<KV("bogus", Num(1))>>),
                    Obj(<<KV("$or", Arr(<<Obj(<<KV("bogus", Num(1))>>)>>))>>)},
      setMap \in {Obj(<<KV("name", Num(1))>>), Obj(<<KV("message", Num(1))>>)},
      limit \in {0, 1}, autoFetchDepth \in {0, 2} }

\* autoFetchDepth || 5
depthOr(autoFetchDepth) ==
  IF autoFetchDepth # 0 THEN autoFetchDepth ELSE DefaultAutoFetchDepth

\* var query = this.create...Statement(...); return this.query(query);
RunsWith(op, built, given) ==
  LET queries == query(sent, built.statement)
  IN  /\ Len(sent) < MaxSent
      /\ sqlish' = built.memo
      /\ IF built.err # ""
         THEN /\ call' = [NoCall EXCEPT !.op = op, !.err = built.err]
              /\ UNCHANGED <<sent, outcome>>
         ELSE /\ sent' = queries
              /\ outcome' = [i \in 1..Len(queries) |->
                               IF i <= Len(outcome) THEN outcome[i] ELSE "pending"]
              /\ call' = [NoCall EXCEPT !.op = op, !.statement = built.statement,
                                        !.returned = Len(queries)]
      /\ args' = given
      /\ UNCHANGED <<models, registry, request, deferred, clauses, db>>

Runs(op, built) == RunsWith(op, built, args)

insert == Runs("insert", createInsertStatement(sqlish, args.self, args.setMap))

update ==
  Runs("update", createUpdateStatement(sqlish, args.self, args.whereMap, args.setMap,
                                       args.limit, args.skip, args.sort))

count == Runs("count", createCountStatement(sqlish, args.self, args.propertyName, args.whereMap))

search ==
  RunsWith("search",
           createSearchStatement(sqlish, args.self, args.searchText, args.whereMap,
                                 args.limit, args.skip, args.sort, args.group,
                                 args.select, args.fetchAssociations,
                                 depthOr(args.autoFetchDepth)),
           [args EXCEPT !.whereMap = whereAfterSearch(args.self, args.searchText, @)])

select ==
  Runs("select", createSelectStatement(sqlish, args.self, args.whereMap, args.limit, args.skip,
                                       args.sort, args.group, args.select,
                                       args.fetchAssociations, depthOr(args.autoFetchDepth)))

remove ==
  Runs("remove", createDeleteStatement(sqlish, args.self, args.whereMap, args.limit,
                                       args.skip, args.sort))

\* A kept function that throws is among the terms.
RECURSIVE throwsIn(_)
throwsIn(terms) ==
  \E i \in 1..Len(terms) :
    \/ terms[i].type = "throws"
    \/ terms[i].type = "group" /\ throwsIn(terms[i].sub)

\* Compiling the statement runs the functions the builder kept.
compiles(statement) ==
  ~throwsIn(statement.main.wheres) /\ ~throwsIn(statement.with.wheres)

\* The datastore settles a query it was handed: it resolves or it fails, and
\* it fails when the statement does not compile.
Settle ==
  \E i \in 1..Len(outcome), status \in {"resolved", "rejected"} :
    /\ outcome[i] = "pending"
    /\ status = "resolved" => compiles(sent[i])
    /\ outcome' = [outcome EXCEPT ![i] = status]
    /\ UNCHANGED <<models, registry, request, deferred, args, clauses, sqlish, call, sent, db>>

ExecInit == InitWith(ExecArgs, {NoRows}, BOOLEAN)

ExecNext ==
  \/ insert
  \/ update
  \/ count
  \/ search
  \/ select
  \/ remove
  \/ Settle

SpecExec == ExecInit /\ [][ExecNext]_vars

(***************************************************************************)
(* Schema operations: create() and alter() hand their statements to the    *)
(* datastore, which runs them in the order it was handed them.  The table  *)
(* the datastore holds is what the statements it accepted have made of it. *)
(***************************************************************************)
MaxStatements == 3

\* knex.raw('CREATE SCHEMA IF NOT EXISTS ?', [this.schemaName])
schemaStatement(schemaName) == Raw("CREATE SCHEMA IF NOT EXISTS " \o schemaName, <<>>)

propertiesOf(keys) == [i \in 1..Len(keys) |-> ownProperty(keys[i][1], keys[i][2])]

NoTable == [exists |-> FALSE, columns |-> <<>>]

named(columns, column) == \E i \in 1..Len(columns) : columns[i].column = column

\* ADD COLUMN, DROP COLUMN and ALTER COLUMN, one after the other; the
\* statement is refused when a column to add is there or one to drop or
\* alter is not.
RECURSIVE altered(_, _)
altered(columns, lines) ==
  IF lines = <<>> THEN [ok |-> TRUE, columns |-> columns]
  ELSE LET line == Head(lines)
       IN  IF line.action = "ADD COLUMN"
           THEN IF named(columns, line.column) THEN [ok |-> FALSE, columns |-> columns]
                ELSE altered(Append(columns, Clause("", line.column, line.definition)),
                             Tail(lines))
           ELSE IF ~named(columns, line.column) THEN [ok |-> FALSE, columns |-> columns]
           ELSE IF line.action = "DROP COLUMN"
           THEN altered(SelectSeq(columns, LAMBDA c : c.column # line.column), Tail(lines))
           ELSE altered(columns, Tail(lines))

accepts(table, statement, name) ==
  CASE statement.name = "CREATE TABLE " \o name -> ~table.exists
    [] statement.name = "ALTER TABLE " \o name ->
         table.exists /\ statement.lines # <<>> /\ altered(table.columns, statement.lines).ok
    [] OTHER -> TRUE

applied(table, statement, name) ==
  CASE statement.name = "CREATE TABLE " \o name ->
         [exists |-> TRUE, columns |-> statement.lines]
    [] statement.name = "ALTER TABLE " \o name ->
         [table EXCEPT !.columns = altered(@, statement.lines).columns]
    [] OTHER -> table

\* The table after the first n statements handed to the datastore.
RECURSIVE tableAfter(_)
tableAfter(n) ==
  IF n = 0 THEN NoTable
  ELSE IF outcome[n] = "resolved"
  THEN applied(tableAfter(n - 1), sent[n], getName(args.self))
  ELSE tableAfter(n - 1)

SchemaProperties ==
  { <<>>,
    << <<"Post", "title">> >>,
    << <<"Post", "author">>, <<"User", "posts">>, <<"Post", "title">> >>,
    << <<"User", "posts">>, <<"User", "postsCount">> >>,
    << <<"Profile", "bio">>, <<"Profile", "id">> >> }

SchemaArgs ==
  { [NoArgs EXCEPT !.self = self, !.schemaName = schemaName, !.properties = properties] :
      self \in {"User", "Log"}, schemaName \in {"", "app"}, properties \in SchemaProperties }

Sends(statement) ==
  /\ sent' = query(sent, statement)
  /\ outcome' = Append(outcome, "pending")

InCreate == {"createSchema", "createTable"}

\* Lines 1105-1110 and 1113: createSchema() hands the schema statement to the
\* datastore when a schema name is set, and is fulfilled at once when not.
create ==
  /\ call.at \notin InCreate
  /\ Len(sent) + (IF args.schemaName # "" THEN 2 ELSE 1) <= MaxStatements
  /\ IF args.schemaName # ""
     THEN /\ Sends(schemaStatement(args.schemaName))
          /\ call' = [NoCall EXCEPT !.op = "create", !.at = "createSchema",
                                    !.returned = Len(sent) + 1]
     ELSE /\ call' = [NoCall EXCEPT !.op = "create", !.at = "createSchema"]
          /\ UNCHANGED <<sent, outcome>>
  /\ UNCHANGED <<models, registry, request, deferred, args, clauses, sqlish, db>>

\* then(): the callback runs when the promise of createSchema() is settled too.
schemaSettled(handed) == IF handed = 0 THEN TRUE ELSE outcome[handed] # "pending"

\* then(): the callback runs when the promise of createSchema() is fulfilled.
schemaCreated(handed) == IF handed = 0 THEN TRUE ELSE outcome[handed] = "resolved"

\* Lines 1114-1116: the callback given to then().
createTable ==
  /\ call.op = "create"
  /\ call.at = "createSchema"
  /\ schemaCreated(call.returned)
  /\ Sends(createStatement(clauses, args.self))
  /\ call' = [call EXCEPT !.at = "createTable", !.returned = Len(sent) + 1,
                          !.statement = createStatement(clauses, args.self)]
  /\ UNCHANGED <<models, registry, request, deferred, args, clauses, sqlish, db>>

\* The promise create() returned settles: as the schema query when that is
\* rejected, as the table query otherwise.
createSettles ==
  /\ call.op = "create"
  /\ \/ call.at = "createSchema" /\ call.returned > 0 /\ outcome[call.returned] = "rejected"
     \/ call.at = "createTable" /\ outcome[call.returned] # "pending"
  /\ call' = [call EXCEPT !.at = outcome[call.returned],
                          !.err = IF outcome[call.returned] = "rejected" THEN "rejected"
                                  ELSE ""]
  /\ UNCHANGED <<models, registry, request, deferred, args, clauses, sqlish, sent, db, outcome>>

\* Lines 205-207, called to add the properties or to remove them.
alter ==
  \E adds \in BOOLEAN :
    LET made == alterStatement(clauses, args.self,
                               IF adds THEN propertiesOf(args.properties) ELSE <<>>,
                               IF adds THEN <<>> ELSE propertiesOf(args.properties), <<>>)
    IN  /\ call.at \notin InCreate
        /\ Len(sent) < MaxStatements
        /\ Sends(made.statement)
        /\ clauses' = made.clauses
        /\ call' = [NoCall EXCEPT !.op = "alter", !.statement = made.statement,
                                  !.returned = Len(sent) + 1]
        /\ UNCHANGED <<models, registry, request, deferred, args, sqlish, db>>

\* The datastore runs the statement it was handed first; it can fail it, and
\* it fails a statement the table does not admit.
Executes ==
  \E i \in 1..Len(outcome), status \in {"resolved", "rejected"} :
    /\ outcome[i] = "pending"
    /\ \A j \in 1..(i - 1) : outcome[j] # "pending"
    /\ status = "resolved" => accepts(tableAfter(i - 1), sent[i], getName(args.self))
    /\ outcome' = [outcome EXCEPT ![i] = status]
    /\ UNCHANGED <<models, registry, request, deferred, args, clauses, sqlish, call, sent, db>>

SchemaInit == InitWith(SchemaArgs, {NoRows}, {TRUE})

SchemaNext ==
  \/ create
  \/ createTable
  \/ createSettles
  \/ alter
  \/ Executes

SpecSchema == SchemaInit /\ [][SchemaNext]_vars

\* The callbacks of settled promises are run, and the datastore answers.
SpecCreate ==
  /\ SchemaInit
  /\ [][SchemaNext]_vars
  /\ WF_vars(createTable)
  /\ WF_vars(createSettles)
  /\ WF_vars(Executes)

(***************************************************************************)
(* Operations of the Models registry.  setup() starts a chain of four      *)
(* callbacks which the event loop runs one at a time; any other call may   *)
(* be made between two of them.                                            *)
(***************************************************************************)
MaxTasks == 2

\* The constructors the files of the app's models directory register.
DirModels == <<"Project", "Membership">>

calls(r) == [r EXCEPT !.err = "", !.returned = Undefined]

settles(r, next) == [r EXCEPT !.chain = IF failed(r) THEN "rejected" ELSE next]

setup(r, basePath) ==
  IF r.datastore
  THEN raise(r, "Models#datastore already exists. Likely calling Models#setup for a second time. This is not allowed.")
  ELSE [r EXCEPT !.datastore = TRUE, !.basePath = basePath, !.chain = "installExtensions"]

RECURSIVE requireDirSync(_, _)
requireDirSync(r, files) ==
  IF files = <<>> \/ failed(r) THEN r
  ELSE requireDirSync(appModel(r, Constructor(Head(files))), Tail(files))

RegistryIdle == UNCHANGED <<models, request, deferred, args, clauses, sqlish, call, sent, db, outcome>>

CallsModel ==
  \E name \in RegistryNames :
    /\ registry._loaded => Instances(registry) < MaxInstances
    /\ registry' = appModel(calls(registry), Constructor(name))
    /\ RegistryIdle

CallsSetup ==
  \E basePath \in {"", "app"} :
    /\ registry' = setup(calls(registry), basePath)
    /\ RegistryIdle

\* In the release stage the extensions are installed, which the datastore may refuse.
InstallsExtensions ==
  /\ registry.chain = "installExtensions"
  /\ \E installed \in BOOLEAN :
       registry' = settles(IF installed THEN calls(registry)
                           ELSE raise(calls(registry), "rejected"),
                           "requireDirSync")
  /\ RegistryIdle

RequiresModels ==
  /\ registry.chain = "requireDirSync"
  /\ registry' =
       settles(IF ~registry.isSetupPrevented /\ registry.basePath # ""
               THEN requireDirSync(calls(registry), DirModels)
               ELSE calls(registry),
               "setImmediate")
  /\ RegistryIdle

SetImmediate ==
  /\ registry.chain = "setImmediate"
  /\ registry' = settles(calls(registry), "load")
  /\ RegistryIdle

Loads ==
  /\ registry.chain = "load"
  /\ registry' = settles(loaded(calls(registry)), "fulfilled")
  /\ RegistryIdle

\* createModel is invoked from migrations, which run on a loaded registry.
CallsCreateModel ==
  \E name \in RegistryNames, properties \in {{"title"}, {"title", "find"}}, force \in BOOLEAN :
    /\ registry._loaded
    /\ Instances(registry) < MaxInstances
    /\ registry' = createModel(calls(registry), name, properties, force)
    /\ RegistryIdle

CallsGetModel ==
  \E name \in RegistryNames :
    /\ registry' = getModel(calls(registry), name)
    /\ RegistryIdle

CallsLoadModelConstructor ==
  \E name \in RegistryNames :
    \E modelConstructor \in {Constructor(name), Placeholder(name)} :
      /\ registry' = loadModelConstructor(calls(registry), modelConstructor)
      /\ RegistryIdle

CallsDestroyModel ==
  \E name \in RegistryNames :
    /\ registry' = destroyModel(calls(registry), name)
    /\ RegistryIdle

CallsSetActiveMigration ==
  \E migration \in BOOLEAN :
    /\ registry' = setActiveMigration(calls(registry), migration)
    /\ RegistryIdle

Handed(r) == Len(r._activeMigration.tasks) + Len(r.rawQueries)

CallsExecute ==
  /\ Handed(registry) < MaxTasks
  /\ registry' = execute(calls(registry), "SELECT 1", <<>>)
  /\ RegistryIdle

CallsSql ==
  /\ Handed(registry) < MaxTasks
  /\ registry' = _sql(calls(registry), "9f8", "CREATE INDEX")
  /\ RegistryIdle

RegistryInit ==
  /\ models = InstalledModels
  /\ registry = NewRegistry
  /\ request = NoRequest
  /\ deferred = TRUE
  /\ args = NoArgs
  /\ clauses = InitClauses
  /\ sqlish = InitSqlish
  /\ call = NoCall
  /\ sent = <<>>
  /\ db = NoRows
  /\ outcome = <<>>

RegisterNext ==
  \/ CallsModel
  \/ CallsSetup
  \/ InstallsExtensions
  \/ RequiresModels
  \/ SetImmediate
  \/ Loads

SetupNext == RegisterNext \/ CallsCreateModel

SpecSetup == RegistryInit /\ [][SetupNext]_vars

LookupNext == RegisterNext \/ CallsLoadModelConstructor \/ CallsGetModel

SpecLookup == RegistryInit /\ [][LookupNext]_vars

DestroyNext == RegisterNext \/ CallsCreateModel \/ CallsDestroyModel

SpecDestroy == RegistryInit /\ [][DestroyNext]_vars

MigrationNext ==
  \/ RegisterNext
  \/ CallsSetActiveMigration
  \/ CallsExecute
  \/ CallsSql

SpecMigration == RegistryInit /\ [][MigrationNext]_vars

(***************************************************************************)
(* The create route of the API (lib/modules/api/index.js).  A request is   *)
(* the controller the route runs on: its body, the authenticator found for *)
(* the session, what the access control answers, the map handed to the     *)
(* model's create function and the instance that comes back.               *)
(***************************************************************************)
automaticPropertyName(modelName) == IF modelName = "Post" THEN "author" ELSE ""

Bodies ==
  { Null, Obj(<<>>), Obj(<<KV("title", Str("a"))>>),
    Obj(<<KV("author", Num(2))>>), Obj(<<KV("author", Num(0))>>),
    Obj(<<KV("title", Str("a")), KV("author", Num(2))>>) }

Requests ==
  { [NoRequest EXCEPT !.at = "canCreate", !.model = modelName, !.body = body,
                      !.given = body, !._authenticator = authenticator,
                      !.canCreate = canCreate, !.authenticatorModel = authenticatorModel] :
      modelName \in {"Post", "User", "Log"}, body \in Bodies,
      authenticator \in {Null, Num(1), Num(2)}, canCreate \in BOOLEAN,
      authenticatorModel \in BOOLEAN }

thrown(req, status, message) ==
  [req EXCEPT !.at = "rejected", !.status = status, !.message = message]

\* The callback that receives the access control's answer.
canCreated(req) ==
  IF req.canCreate
  THEN LET createMap == IF Truthy(req.body) THEN req.body ELSE Obj(<<>>)
           name == automaticPropertyName(req.model)
       IN  IF name = "" THEN [req EXCEPT !.at = "create", !.handed = req.body]
           ELSE IF ~req.authenticatorModel
           THEN thrown(req, 0, "Cannot find authenticator model. Did you define an authenticator via 'PropertyTypes#Authenticate'?")
           ELSE IF HasKey(createMap, name) /\ Truthy(Get(createMap, name))
           THEN thrown(req, 400, "Cannot set automatic property manually.")
           ELSE LET body == IF Truthy(req.body)
                            THEN Obj(assign(createMap.kv, name, req._authenticator))
                            ELSE req.body
                IN  [req EXCEPT !.at = "create", !.body = body, !.handed = body]
  ELSE IF Truthy(req._authenticator) THEN thrown(req, 403, "Forbidden")
  ELSE thrown(req, 401, "Unauthorized")

\* The instance model.create makes of the map it is handed.
instanceOf(map) == IF Truthy(map) THEN map ELSE Obj(<<>>)

createFunction ==
  /\ request = NoRequest
  /\ request' \in Requests
  /\ UNCHANGED <<models, registry, deferred, args, clauses, sqlish, call, sent, db, outcome>>

canCreateSettles ==
  /\ request.at = "canCreate"
  /\ request' = canCreated(request)
  /\ UNCHANGED <<models, registry, deferred, args, clauses, sqlish, call, sent, db, outcome>>

createSettled ==
  /\ request.at = "create"
  /\ \E created \in BOOLEAN :
       request' =
         IF created
         THEN [request EXCEPT !.at = "resolved", !.instance = instanceOf(request.handed),
                              !.session = IF isAuthenticator(request.model)
                                          THEN "accessToken" ELSE @]
         ELSE thrown(request, 0, "rejected")
  /\ UNCHANGED <<models, registry, deferred, args, clauses, sqlish, call, sent, db, outcome>>

ApiNext == createFunction \/ canCreateSettles \/ createSettled

SpecApi == RegistryInit /\ [][ApiNext]_vars

(***************************************************************************)
(* Properties of the statements the builders return.                       *)
(***************************************************************************)
Queries(statement) ==
  IF statement.kind = "cte" THEN {statement.with, statement.main}
  ELSE IF statement.kind = "query" THEN {statement.main}
  ELSE {}

RECURSIVE RefTables(_)
RefTables(terms) ==
  IF terms = <<>> THEN {}
  ELSE LET term == Head(terms)
       IN  (CASE term.type = "group" -> RefTables(term.sub)
              [] term.type = "exists" -> {}
              [] OTHER -> {term.ref.table, term.ref2.table} \ {""})
             \cup RefTables(Tail(terms))

OrderTables(q) == {q.orders[i].ref.table : i \in 1..Len(q.orders)} \ {""}

Returned(op) == call.op = op /\ call.err = ""

selfAssociations == getAssociations(args.self)

\* The associations createSelectStatement joins because the filter names them.
NamedInWhere ==
  {association \in Range(selfAssociations) :
     /\ ~isFetched(association, args.fetchAssociations)
     /\ whereNames(args.whereMap, association.name)}

FetchedAssociations ==
  {association \in Range(selfAssociations) : isFetched(association, args.fetchAssociations)}

joinNamesOf(associations) ==
  {aliasOf(args.self, <<association>>) : association \in associations}
    \cup {tableize(association.through) :
            association \in {a \in associations : isManyToMany(a)}}

\* C2 as claimed: on the CTE path the inner WITH query of createSelectStatement
\* never carries a join; all joins are on the outer query.
C2_InnerQueryHasNoJoin ==
  (Returned("createSelectStatement") /\ call.statement.kind = "cte")
    => call.statement.with.joins = <<>>

\* C2 as amended: on the CTE path the inner WITH query carries exactly the joins
\* of the associations that are not fetched and that the whereMap names with a
\* truthy value; the join of every fetched association is on the outer query,
\* and the outer query joins nothing for a non-fetched association.
C2_InnerJoinsOnlyForFilteredAssociations ==
  (Returned("createSelectStatement") /\ call.statement.kind = "cte")
    => /\ Visible(call.statement.with) \ {tableize(args.self)} = joinNamesOf(NamedInWhere)
       /\ joinNamesOf(FetchedAssociations) \subseteq Visible(call.statement.main)
       /\ \A association \in Range(selfAssociations) \ FetchedAssociations :
            aliasOf(args.self, <<association>>) \notin Visible(call.statement.main)

C2_Witness ==
  /\ Returned("createSelectStatement")
  /\ call.statement.kind = "cte"
  /\ call.statement.with.joins # <<>>
  /\ call.statement.main.joins # <<>>
  /\ FetchedAssociations # {}

\* C4: for every setMap given to createUpdateStatement, a storable property
\* whose value is {$inc: n} or {$decr: n} yields an increment or decrement of
\* its column by n, and that column is not in the map passed to update().
C4_IncrementIsNotAnAssignment ==
  (Returned("createUpdateStatement") /\ Truthy(args.setMap))
    => \A i \in 1..Len(args.setMap.kv) :
         LET property == ownProperty(args.self, args.setMap.kv[i].k)
             setValue == args.setMap.kv[i].v
         IN  (isAllowed(property) /\ setValue.t = "object")
               => /\ \A j \in 1..Len(setValue.kv) :
                       Counter(IF setValue.kv[j].k = "$inc" THEN "increment" ELSE "decrement",
                               property.columnName, setValue.kv[j].v)
                         \in Range(call.statement.main.counters)
                  /\ \A k \in 1..Len(call.statement.main.update) :
                       call.statement.main.update[k].k # property.columnName

C4_Witness ==
  /\ Returned("createUpdateStatement")
  /\ call.statement.main.counters = <<Counter("decrement", "score", Num(2))>>
  /\ call.statement.main.update = <<KV("name", Num(2))>>

UnknownIn(self, names) == \E name \in names : ~Found(getProperty(self, name))

branchKeys(ors) ==
  UNION {Range(Keys(ors.items[i])) : i \in {j \in 1..Len(ors.items) : ors.items[j].t = "object"}}

whereNamesOf(whereMap) ==
  IF whereMap.t # "object" THEN {}
  ELSE (Range(Keys(whereMap)) \ {"$or"})
         \cup (IF HasKey(whereMap, "$or") /\ Get(whereMap, "$or").t = "array"
               THEN branchKeys(Get(whereMap, "$or")) ELSE {})

mapNamesOf(map) == IF map.t = "object" THEN Range(Keys(map)) ELSE {}

groupNamesOf(group) ==
  IF group.t = "string" /\ Truthy(group) THEN {group.s}
  ELSE IF group.t = "array" THEN Range(group.items)
  ELSE {}

sortApplies == call.op = "createSelectStatement" \/ paginated(args.self, args.limit, args.skip, args.sort)

\* The property names handed to the WHERE, SET/INSERT, SORT and GROUP BY
\* builders by the last call.
NamesBuilt ==
  (IF call.op \in {"createSelectStatement", "createCountStatement",
                   "createDeleteStatement", "createUpdateStatement"}
   THEN whereNamesOf(args.whereMap) ELSE {})
    \cup (IF call.op \in {"createUpdateStatement", "createInsertStatement"}
          THEN mapNamesOf(args.setMap) ELSE {})
    \cup (IF call.op \in {"createSelectStatement", "createDeleteStatement",
                          "createUpdateStatement"} /\ sortApplies
          THEN mapNamesOf(args.sort) ELSE {})
    \cup (IF call.op = "createSelectStatement" THEN groupNamesOf(args.group) ELSE {})

\* C5 as claimed: a property name the model does not declare, given to the
\* WHERE, SET/INSERT, SORT or GROUP BY builder, makes the builder throw: no
\* statement is returned.  A name inside a $or branch is looked up in a
\* function given to where(); when that function is deferred the builder
\* returns a statement.
C5_UnknownPropertyThrows ==
  UnknownIn(args.self, NamesBuilt) => (call.err # "" /\ call.statement = NoStatement)

\* C7 as claimed: no statement builder changes a property's clauses.
\* alterStatement splices the clauses of each changed property.
C7_BuildersLeaveClauses == [][clauses' = clauses]_vars

QueryBuilders ==
  {"createSelectStatement", "createCountStatement", "createDeleteStatement",
   "createUpdateStatement", "createInsertStatement"}

freshly(op) ==
  CASE op = "createSelectStatement" ->
         createSelectStatement(InitSqlish, args.self, args.whereMap, args.limit, args.skip,
                               args.sort, args.group, args.select, args.fetchAssociations,
                               args.autoFetchDepth)
    [] op = "createCountStatement" ->
         createCountStatement(InitSqlish, args.self, args.propertyName, args.whereMap)
    [] op = "createDeleteStatement" ->
         createDeleteStatement(InitSqlish, args.self, args.whereMap, args.limit, args.skip,
                               args.sort)
    [] op = "createUpdateStatement" ->
         createUpdateStatement(InitSqlish, args.self, args.whereMap, args.setMap, args.limit,
                               args.skip, args.sort)
    [] OTHER -> createInsertStatement(InitSqlish, args.self, args.setMap)

countingText(key) ==
  LET property == ownProperty(key[1], key[2])
  IN  <<Lit(createReadOnlyStatement(key[1], property, property.counting).text)>>

\* C8: a property's memoized sqlish text, once set, is never changed; whichever
\* builder sets it, it is the count subquery over the property's own table;
\* and a builder returns the same statement whatever has been memoized before.
C8_MemoizedSqlishIsStable ==
  /\ [](\A key \in PropertyKeys :
          sqlish[key] # InitSqlish[key] => sqlish[key] = countingText(key))
  /\ [](call.op \in QueryBuilders
          => /\ call.statement = freshly(call.op).statement
             /\ call.err = freshly(call.op).err)
  /\ [][\A key \in PropertyKeys : sqlish[key] # NoTemplate => sqlish'[key] = sqlish[key]]_vars

C8_Witness ==
  /\ sqlish[<<"User", "postsCount">>] # NoTemplate
  /\ args.self = "Project"
  /\ Returned("createDeleteStatement")

\* C9 as claimed: in a statement of createSelectStatement or createCountStatement every
\* WHERE or ORDER BY term outside an EXISTS subquery refers to the table the
\* query selects from or to a table or alias joined in that same query.
C9_FilteredTablesAreJoined ==
  (Returned("createSelectStatement") \/ Returned("createCountStatement"))
    => \A q \in Queries(call.statement) :
         RefTables(q.wheres) \cup OrderTables(q) \subseteq Visible(q)

columnName(column) == IF column.as # "" THEN column.as ELSE column.column

\* C10 as claimed: within one SELECT statement no two joins introduce the same table
\* name or alias, and no two selected columns get the same name.
C10_JoinAndColumnNamesAreUnique ==
  Returned("createSelectStatement")
    => \A q \in Queries(call.statement) :
         /\ \A i, j \in 1..Len(q.joins) :
              i # j => visibleName(q.joins[i]) # visibleName(q.joins[j])
         /\ \A i, j \in 1..Len(q.columns) :
              i # j => columnName(q.columns[i]) # columnName(q.columns[j])

(***************************************************************************)
(* Properties of the rows a statement touches.                             *)
(***************************************************************************)
Answers(method) ==
  /\ outcome # <<>>
  /\ outcome[1].status = "resolved"
  /\ sent[1].main.method = method

RootIds == {outcome[1].rows[i][1].row["id"] : i \in 1..Len(outcome[1].rows)}

\* A one-to-many association of the selected model is among the joins.
HasManyJoined ==
  \E i \in 1..Len(selfAssociations), j \in 1..Len(sent[1].main.joins) :
    /\ selfAssociations[i].hasMany # ""
    /\ sent[1].main.joins[j].as = aliasOf(args.self, <<selfAssociations[i]>>)

\* C1: the rows a createSelectStatement statement with limit L > 0 returns,
\* whatever the tables hold and however many rows the joins make of one
\* root row, carry at most L distinct ids of the selected table.
C1_AtMostLimitRoots ==
  (Answers("select") /\ args.limit > 0 /\ hasId(args.self))
    => Cardinality(RootIds) <= args.limit

C1_Witness ==
  /\ Answers("select")
  /\ args.limit > 0
  /\ sent[1].kind = "cte"
  /\ HasManyJoined
  /\ Len(outcome[1].rows) > args.limit
  /\ Cardinality(RootIds) = args.limit

\* (limit || skip || sort) && this.getProperty('id'), on the arguments.
BoundedByIds ==
  /\ args.limit # 0 \/ args.skip # 0 \/ Truthy(args.sort)
  /\ Found(ownProperty(args.self, "id"))

WhereTerms == whereKeys(args.self, args.whereMap.kv).terms

\* C3: createDeleteStatement and createUpdateStatement return the form
\* WITH "t" AS (inner) mutation-where-id-in-t, the inner query carrying the
\* where terms, the sort, the limit and the offset, exactly when limit, skip
\* or sort is given and the model has an id, and otherwise the mutation with
\* the where terms on itself; run in the first form with limit L > 0, the
\* statement deletes or updates at most L rows.
C3_MutationBoundedByIds ==
  /\ (Returned("createDeleteStatement") \/ Returned("createUpdateStatement"))
       => IF BoundedByIds
          THEN /\ call.statement.kind = "cte"
               /\ call.statement.name = "t"
               /\ call.statement.with.wheres = WhereTerms
               /\ (call.statement.with.orders # <<>>) = Truthy(args.sort)
               /\ call.statement.with.limit = args.limit
               /\ call.statement.with.offset = args.skip
               /\ call.statement.main.wheres = <<idInT>>
          ELSE /\ call.statement.kind = "query"
               /\ call.statement.main.wheres = WhereTerms
  /\ ((Answers("delete") \/ Answers("update")) /\ sent[1].kind = "cte" /\ args.limit > 0)
       => outcome[1].affected <= args.limit

C3_Witness ==
  /\ Answers("delete")
  /\ sent[1].kind = "cte"
  /\ args.limit > 0
  /\ outcome[1].affected = args.limit
  /\ db[sent[1].main.from] # <<>>

\* C6: an operation whose statement construction throws hands nothing to
\* the datastore; one that builds its statement hands over that statement,
\* once, and returns the deferred result the datastore made for it; and
\* nothing is handed over again when a query settles, rejected or not.
C6_OneQueryPerStatement ==
  [][/\ (call'.err # "" \/ call' = call) => sent' = sent
     /\ (call'.err = "" /\ call' # call)
          => /\ sent' = Append(sent, call'.statement)
             /\ outcome' = Append(outcome, "pending")
             /\ call'.returned = Len(sent')]_vars

C6_Witness ==
  /\ Len(sent) = 2
  /\ outcome[1] = "rejected"
  /\ call.err = ""
  /\ call.returned = 2
  /\ sent[2] = call.statement

(***************************************************************************)
(* Properties of the joins of association chains.                          *)
(***************************************************************************)
associationsOf(model) == SelectSeq(InstalledProperties(model), LAMBDA p : p.association)

RECURSIVE chainsFrom(_, _)
chainsFrom(model, length) ==
  IF length = 0 THEN {<<>>}
  ELSE {<<>>} \cup
       UNION {{<<association>> \o rest : rest \in chainsFrom(association.associatedModel, length - 1)} :
                association \in Range(associationsOf(model))}

\* The association chains of at most DefaultAutoFetchDepth steps from each model.
Chains == [model \in Models |-> chainsFrom(model, DefaultAutoFetchDepth) \ {<<>>}]

\* A chain whose first association is fetched and whose every further
\* association is auto-fetch and passes the whitelist of the one before it.
Fetchable(chain, fetchAssociations) ==
  /\ isFetched(chain[1], fetchAssociations)
  /\ \A i \in 2..Len(chain) :
       /\ chain[i].autoFetch
       /\ chain[i - 1].whitelisted => chain[i].name \in Range(chain[i - 1].autoFetchProperties)

atLeastOne(depth) == IF depth > 1 THEN depth ELSE 1

FetchedChains ==
  {chain \in Chains[args.self] :
     Fetchable(chain, args.fetchAssociations) /\ Len(chain) <= atLeastOne(args.autoFetchDepth)}

joinedAs(q) == {q.joins[i].as : i \in 1..Len(q.joins)} \ {""}

IntroducedBefore(q, i) == {q.from} \cup {visibleName(q.joins[j]) : j \in 1..i}

joinRefs(join) == {join.left.table, join.right.table}

\* The join at position i of q joins the last table of the chain under the
\* chain's alias, on the parent alias and that alias; for a many-to-many
\* association the through table is joined on the parent alias just before
\* and the associated table is joined on the through table and the alias.
JoinsChain(q, i, self, chain) ==
  LET association == chain[Len(chain)]
      alias == aliasOf(self, chain)
      parent == JoinStrings(<<tableize(self)>> \o Names(SubSeq(chain, 1, Len(chain) - 1)), "_")
  IN  /\ q.joins[i].as = alias
      /\ q.joins[i].table = tableize(association.associatedModel)
      /\ IF association.manyToMany
         THEN /\ i > 1
              /\ q.joins[i - 1].as = ""
              /\ q.joins[i - 1].table = tableize(association.through)
              /\ joinRefs(q.joins[i - 1]) = {tableize(association.through), parent}
              /\ joinRefs(q.joins[i]) = {tableize(association.through), alias}
         ELSE joinRefs(q.joins[i]) = {parent, alias}

C13_ChainsWithinDepth ==
  Returned("createSelectStatement")
    => \A chain \in Chains[args.self] :
         aliasOf(args.self, chain) \in joinedAs(call.statement.main)
           => Len(chain) <= args.autoFetchDepth

\* C13 as amended: createSelectStatement returns for every model graph of
\* the fixtures, cyclic auto-fetch chains included, and the chains it
\* fetches are exactly those that start at a fetched association, go on
\* through auto-fetch associations that the whitelist of the association
\* before them does not exclude, and are at most autoFetchDepth long, one
\* long when autoFetchDepth is less than one.
C13_FetchedChainsAreBounded ==
  Returned("createSelectStatement")
    => joinedAs(call.statement.main) \ joinNamesOf(NamedInWhere)
         = {aliasOf(args.self, chain) : chain \in FetchedChains}

C13_Witness ==
  /\ Returned("createSelectStatement")
  /\ args.autoFetchDepth = DefaultAutoFetchDepth
  /\ "users_projects_users_projects_users_projects" \in joinedAs(call.statement.main)
  /\ "users_projects_users_profile" \notin joinedAs(call.statement.main)
  /\ "users_projects_users_posts" \notin joinedAs(call.statement.main)

\* The joins made for the chain ending at position i: the join itself and,
\* for a many-to-many association, the join of the through table before it.
chainJoins(q, i, chain) ==
  IF chain[Len(chain)].manyToMany THEN {q.joins[i], q.joins[i - 1]} ELSE {q.joins[i]}

\* C12 as claimed: every join addJoinStatement makes for an association,
\* whatever its relation kind, is an inner join when the association is
\* declared required and a left outer join otherwise.  The two joins of a
\* many-to-many association are left outer joins whatever is declared.
C12_RequiredJoinsAreInner ==
  Returned("createSelectStatement")
    => \A q \in Queries(call.statement) :
         \A i \in 1..Len(q.joins), chain \in Chains[args.self] :
           JoinsChain(q, i, args.self, chain)
             => \A join \in chainJoins(q, i, chain) :
                  join.type = IF chain[Len(chain)].required THEN "innerJoin"
                              ELSE "leftOuterJoin"

(***************************************************************************)
(* Properties of the implicit sort.                                        *)
(***************************************************************************)
ImplicitOrder == Order(Ref(tableize(args.self), "id"), "ASC")

SortedImplicitly(statement) ==
  \A q \in Queries(statement) : ImplicitOrder \in Range(q.orders)

JoinsSomething(statement) == \E q \in Queries(statement) : q.joins # <<>>

\* C14 as claimed: createSelectStatement orders by id ascending, without being
\* asked to, exactly when at least one association is joined into the
\* statement and neither a sort nor a group is given.
C14_ImplicitSortIffJoined ==
  Returned("createSelectStatement")
    => (SortedImplicitly(call.statement)
          <=> (JoinsSomething(call.statement) /\ ~Truthy(args.sort) /\ ~Truthy(args.group)))

\* C14 as amended: createSelectStatement orders every query of the statement
\* by id ascending exactly when the model declares at least one association
\* (joined or not) and an id property, and neither a sort nor a group is
\* given; otherwise no query of the statement is ordered by id.
C14_ImplicitSortIffAssociationsDeclared ==
  Returned("createSelectStatement")
    => IF /\ Len(getAssociations(args.self)) > 0
          /\ hasId(args.self)
          /\ ~Truthy(args.sort)
          /\ ~Truthy(args.group)
       THEN \A q \in Queries(call.statement) : q.orders = <<ImplicitOrder>>
       ELSE \A q \in Queries(call.statement) : ImplicitOrder \notin Range(q.orders)

C14_Witness ==
  /\ Returned("createSelectStatement")
  /\ args.self = "Profile"
  /\ call.statement.kind = "cte"
  /\ ~JoinsSomething(call.statement)
  /\ call.statement.with.orders = <<ImplicitOrder>>
  /\ call.statement.main.orders = <<ImplicitOrder>>

(***************************************************************************)
(* Properties of $or.                                                      *)
(***************************************************************************)
\* The rows the datastore returns for the SELECT statement of a whereMap,
\* everything else as in the call made.
rowsFor(whereMap) ==
  Range(answer(createSelectStatement(sqlish, args.self, whereMap, args.limit, args.skip,
                                     args.sort, args.group, args.select,
                                     args.fetchAssociations, args.autoFetchDepth).statement,
               db).rows)

reversed(list) == [i \in 1..Len(list) |-> list[Len(list) + 1 - i]]

branchesOf(whereMap) == whereMap.kv[1].v.items

Selected ==
  /\ Returned("createSelectStatement")
  /\ sent = <<call.statement>>
  /\ outcome[1].status = "resolved"

\* C15: for every table content, the rows selected by {$or: [b1, ..., bn]}
\* over stored properties are the union of the rows selected by each branch
\* alone, and the same rows are selected when the branches are permuted.
C15_OrSelectsTheUnion ==
  (Selected /\ args.whereMap \in OrMaps(args.self))
    => /\ Range(outcome[1].rows)
            = UNION {rowsFor(branch) : branch \in Range(branchesOf(args.whereMap))}
       /\ Range(outcome[1].rows) = rowsFor(Either(reversed(branchesOf(args.whereMap))))

C15_Witness ==
  /\ Selected
  /\ Len(db["users"]) = MaxRows
  /\ args.whereMap = Either(<<Obj(<<KV("name", Num(1)), KV("id", Obj(<<KV("$lt", Num(3))>>))>>),
                              Obj(<<KV("name", Num(2))>>)>>)
  /\ args.fetchAssociations = Null
  /\ {row[1].row["id"] : row \in Range(outcome[1].rows)} = {1, 2}

(***************************************************************************)
(* Properties of operator objects.                                         *)
(***************************************************************************)
Threw(op, message) == call.op = op /\ call.err = message

Filters(statement) ==
  IF statement.kind = "cte" THEN Range(statement.with.wheres)
  ELSE Range(statement.main.wheres)

idRef == Ref(tableize(args.self), "id")

\* C16 as claimed: given {id: {key: null}}, a recognized operator other than
\* $is and $not makes the builder throw the explicit NULL error, $is and $not
\* give IS null and IS NOT null, and an unrecognized key makes it throw the
\* error that names the key.
C16_NullOperandsThrowOrAreNullSafe ==
  \A key \in DOMAIN WHERE_TRANSFORMER \cup {"$bogus"} :
    (call.op = "createSelectStatement" /\ args.whereMap = NullMap(key))
      => CASE key = "$is" ->
                /\ call.err = ""
                /\ WhereRaw(columnNameOf(idRef) \o " IS null", idRef, NoRef, Null)
                     \in Filters(call.statement)
           [] key = "$not" ->
                /\ call.err = ""
                /\ WhereRaw(columnNameOf(idRef) \o " IS NOT null", idRef, NoRef, Null)
                     \in Filters(call.statement)
           [] key = "$bogus" -> call.err = "Invalid transformer '$bogus'."
           [] OTHER -> call.err = "Cannot use transformer '" \o key \o "' with NULL value."

(***************************************************************************)
(* Properties of unknown property names in a whereMap.                     *)
(***************************************************************************)
UnknownAtTop == Obj(<<KV("bogus", Num(1))>>)

UnknownInOr == Either(<<Obj(<<KV("name", Num(1))>>), Obj(<<KV("bogus", Num(2))>>)>>)

\* The error messages of addWhereClause that name the property and the table.
Identifies(message, propertyName, table) ==
  message \in {"Cannot find property with name '" \o propertyName \o "' on table '"
                 \o table \o "'.",
               "Cannot find property with name '" \o propertyName \o "' on $or on table '"
                 \o table \o "'."}

FilteringBuilders ==
  {"createSelectStatement", "createCountStatement", "createDeleteStatement"}

\* C17 as claimed: a whereMap with an unknown property name, at the top level
\* or inside a $or branch, makes the builder throw an error whose message
\* names that property and the table.
C17_UnknownPropertyIsNamed ==
  (call.op \in FilteringBuilders /\ args.self = "User"
     /\ args.whereMap \in {UnknownAtTop, UnknownInOr})
    => Identifies(call.err, "bogus", tableize(args.self))

(***************************************************************************)
(* Properties of rawWhere templates.                                       *)
(***************************************************************************)
\* C18 as claimed: a filter on the property level of Log, whose rawWhere is
\* a template with a $1 slot, becomes the template with the filter value
\* bound to the slot and nothing else, whatever kind of value is given.
C18_RawWhereIsUsedVerbatim ==
  \A whereValue \in FilterValues :
    (call.op = "createSelectStatement" /\ args.self = "Log"
       /\ args.whereMap = Obj(<<KV("level", whereValue)>>))
      => /\ call.err = ""
         /\ Filters(call.statement)
              = {WhereRaw(ownProperty("Log", "level").rawWhere, NoRef, NoRef, whereValue)}

(***************************************************************************)
(* Properties of createSearchStatement.                                    *)
(***************************************************************************)
\* id IN (SELECT id FROM <table> WHERE _search @@ to_tsquery(?))
SearchConjunct ==
  Where("in", idRef, "in",
        Builder([EmptyQuery(tableize(args.self)) EXCEPT
                   !.columns = <<ColumnRef("", "id", "")>>,
                   !.wheres = <<WhereRaw("_search @@ to_tsquery(?)", Ref("", "_search"),
                                         NoRef, args.searchText)>>]))

Searches == call'.op = "createSearchStatement" /\ args.self = "User"

selectedWith(whereMap) ==
  createSelectStatement(sqlish, args.self, whereMap, args.limit, args.skip, args.sort,
                        args.group, args.select, args.fetchAssociations, args.autoFetchDepth)

\* C19 as claimed: the statement createSearchStatement returns is the one
\* createSelectStatement returns for the same whereMap with the conjunct
\* id IN (matching ids) added to its filters, whatever the whereMap filters on.
C19_SearchAddsOneConjunct ==
  [][Searches
       => /\ call'.err = selectedWith(args.whereMap).err
          /\ call'.err = ""
               => LET found == selectedWith(args.whereMap).statement
                  IN  call'.statement
                        = [found EXCEPT !.main.wheres = Append(@, SearchConjunct)]]_vars

\* C20 as claimed: no builder changes the whereMap, setMap, sort or select
\* the caller passed.
C20_BuildersLeaveTheMaps ==
  [][/\ args'.whereMap = args.whereMap
     /\ args'.setMap = args.setMap
     /\ args'.sort = args.sort
     /\ args'.select = args.select]_vars

(***************************************************************************)
(* Properties of GROUP BY.                                                 *)
(***************************************************************************)
\* The property names a group value gives, none when it is not a string or
\* an array.
groupNames(group) ==
  IF group.t = "string" THEN (IF group.s = "" THEN <<>> ELSE <<group.s>>)
  ELSE IF group.t = "array" THEN group.items
  ELSE <<>>

GroupErrors ==
  IF args.group.t \in {"string", "array"}
  THEN {"Invalid group by property '" \o groupText(args.group) \o "'."}
  ELSE {"Invalid groupBy. Please provider either an array or a string."}

\* C21 as claimed: createSelectStatement groups by the columns of the names
\* given as a string or an array, and throws an explicit error for an empty
\* string, an empty array, a value of another kind or an undeclared name.
C21_GroupIsAppliedOrRefused ==
  (call.op = "createSelectStatement" /\ args.self = "User" /\ args.sort = Null
     /\ args.group # Null)
    => IF /\ groupNames(args.group) # <<>>
          /\ \A i \in 1..Len(groupNames(args.group)) :
               Found(ownProperty("User", groupNames(args.group)[i]))
       THEN /\ call.err = ""
            /\ call.statement.main.groups
                 = [i \in 1..Len(groupNames(args.group)) |->
                      Ref("users", ownProperty("User", groupNames(args.group)[i]).columnName)]
       ELSE call.err \in GroupErrors

(***************************************************************************)
(* Properties of the schema statements.                                    *)
(***************************************************************************)
adding == alterStatement(clauses, args.self, propertiesOf(args.properties), <<>>, <<>>).statement

removing == alterStatement(clauses, args.self, <<>>, propertiesOf(args.properties), <<>>).statement

storableColumns ==
  {quote(property.columnName) :
     property \in {p \in Range(propertiesOf(args.properties)) : isAllowed(p)}}

clauseColumns(statement) == {statement.lines[i].column : i \in 1..Len(statement.lines)}

\* C22: when the datastore has accepted the statement alterStatement builds
\* to add a set of properties, it accepts the statement alterStatement builds
\* to remove the same set, and the table then has the columns it had before
\* the two; both statements have one clause for each storable property of
\* the set and none for the others.
C22_AddThenRemoveRestoresColumns ==
  /\ \A j \in 1..(Len(sent) - 1) :
       (sent[j] = adding /\ outcome[j] = "resolved" /\ sent[j + 1] = removing)
         => /\ accepts(tableAfter(j), sent[j + 1], getName(args.self))
            /\ applied(tableAfter(j), sent[j + 1], getName(args.self)) = tableAfter(j - 1)
  /\ \A j \in 1..Len(sent) :
       sent[j] \in {adding, removing}
         => /\ clauseColumns(sent[j]) = storableColumns
            /\ Len(sent[j].lines) = Cardinality(storableColumns)

C22_Witness ==
  /\ args.properties = << <<"Post", "author">>, <<"User", "posts">>, <<"Post", "title">> >>
  /\ sent = <<createStatement(clauses, args.self), adding, removing>>
  /\ outcome = <<"resolved", "resolved", "resolved">>
  /\ Len(tableAfter(2).columns) = Len(tableAfter(1).columns) + 2
  /\ tableAfter(3).columns = createStatement(clauses, args.self).lines

isCreateTable(statement) == statement = createStatement(clauses, args.self)

isCreateSchema(statement) == statement = schemaStatement(args.schemaName)

SchemaFailed ==
  /\ call.op = "create"
  /\ call.at = "createSchema"
  /\ call.returned > 0
  /\ outcome[call.returned] = "rejected"

TableOnlyAfterSchema ==
  /\ \A j \in 1..Len(sent) :
       (isCreateTable(sent[j]) /\ args.schemaName # "")
         => /\ j > 1
            /\ isCreateSchema(sent[j - 1])
            /\ outcome[j - 1] = "resolved"
  /\ args.schemaName = "" => \A j \in 1..Len(sent) : ~isCreateSchema(sent[j])
  /\ \A j \in 1..(Len(sent) - 1) :
       (isCreateSchema(sent[j]) /\ outcome[j] = "rejected") => ~isCreateTable(sent[j + 1])
  /\ (call.op = "create" /\ call.at = "resolved") => outcome[call.returned] = "resolved"

\* C23: create() hands CREATE TABLE to the datastore only after the CREATE
\* SCHEMA IF NOT EXISTS query has been resolved when a schema name is set;
\* without a schema name no schema query is handed over at all; and when the
\* schema query is rejected no CREATE TABLE follows it and the promise
\* create() returned is rejected.
C23_SchemaBeforeTable ==
  /\ []TableOnlyAfterSchema
  /\ (SchemaFailed ~> (call.op = "create" /\ call.at = "rejected"))
  /\ ((call.op = "create" /\ call.at = "createSchema" /\ args.schemaName = "")
        ~> (call.op = "create" /\ call.at \in {"resolved", "rejected"}))

C23_Witness ==
  /\ args.schemaName = "app"
  /\ call.op = "create"
  /\ call.at = "resolved"
  /\ sent = <<schemaStatement("app"), schemaStatement("app"), createStatement(clauses, args.self)>>
  /\ outcome = <<"rejected", "resolved", "resolved">>

(***************************************************************************)
(* Properties of the Models registry.                                      *)
(***************************************************************************)
LinkedOnce ==
  \A i, j \in 1..Len(registry.linked) :
    registry.linked[i].model = registry.linked[j].model => i = j

\* C24: a through model is linked (postInstallModel writes the
\* throughPropertyName of the two many-to-many properties) once per model,
\* and only when no registered constructor is still waiting to be
\* instantiated, both for the models setup loads and for the models added
\* after it; the names written are the through model's properties that refer
\* to the two sides.
C24_LinkedAfterEveryModelIsLoaded ==
  /\ \A i \in 1..Len(registry.linked) :
       /\ registry.linked[i].waiting = {}
       /\ registry.linked[i].chain \in {"load", "fulfilled", "rejected"}
  /\ LinkedOnce
  /\ registry.linked # <<>> =>
       \A key \in ThroughKeys :
         registry.throughPropertyName[key] = ownProperty(key[1], key[2]).throughPropertyName
  /\ registry.linked = <<>> => \A key \in ThroughKeys : registry.throughPropertyName[key] = ""

C24_Witness ==
  /\ registry.chain = "fulfilled"
  /\ Len(registry.linked) = 1
  /\ registry.linked[1].chain = "load"
  /\ registry.linked[1].model = registry.internals["Membership"]
  /\ registry.order = <<"User", "Membership", "Project">>
  /\ registry.throughPropertyName[<<"Project", "users">>] = "project"

\* C25: a constructor handed to Models.model is never instantiated before
\* setup's last callback has run and never more than once; once the registry
\* is loaded every registered constructor has been instantiated exactly once,
\* so a constructor registered after that is instantiated during the call.
C25_RegisteredInstantiatedOnce ==
  /\ \A name \in RegistryNames : registry.made[Constructor(name)] <= 1
  /\ ~registry._loaded => \A name \in RegistryNames : registry.made[Constructor(name)] = 0
  /\ registry._loaded =>
       \A name \in registry.registered : registry.made[Constructor(name)] = 1
  /\ registry.chain = "fulfilled" => registry._loaded

C25_Witness ==
  /\ registry.chain = "fulfilled"
  /\ registry.registered = RegistryNames
  /\ \A name \in RegistryNames : registry.made[Constructor(name)] = 1
  /\ registry.basePath = ""
  /\ Len(registry.linked) = 1
  /\ registry.linked[1].chain = "fulfilled"

\* C26: whatever getModel returns is a Model, the one registered under the
\* name asked for; in every other case it throws.
C26_GetModelReturnsAModel ==
  registry.returned # Undefined =>
    /\ isModel(registry.returned)
    /\ registry.returned = registry.internals[registry.returned.name]

Tasks(r) == r._activeMigration.tasks

AddsOneTask ==
  /\ Len(Tasks(registry')) = Len(Tasks(registry)) + 1
  /\ SubSeq(Tasks(registry'), 1, Len(Tasks(registry))) = Tasks(registry)
  /\ registry'.rawQueries = registry.rawQueries
  /\ registry'.err = ""

SendsOneQuery ==
  /\ Len(registry'.rawQueries) = Len(registry.rawQueries) + 1
  /\ SubSeq(registry'.rawQueries, 1, Len(registry.rawQueries)) = registry.rawQueries
  /\ Tasks(registry') = Tasks(registry)
  /\ registry'.err = ""

SendsNothing ==
  /\ registry'.rawQueries = registry.rawQueries
  /\ Tasks(registry') = Tasks(registry)
  /\ registry'.err = "TypeError"

\* C28 as claimed: a call of execute or _sql adds one task and sends no query
\* while a migration is active, and sends one raw query and adds no task
\* otherwise.
C28_TaskOrQuery ==
  [][(CallsExecute \/ CallsSql) =>
       IF registry._activeMigration.active THEN AddsOneTask ELSE SendsOneQuery]_vars

\* C28, amended: a call of execute or _sql adds one task and sends no query
\* while a migration is active; with no active migration it sends one raw
\* query and adds no task once setup has made the datastore, and throws
\* without sending anything before that.
C28_TaskOrQueryOnceSetUp ==
  [][(CallsExecute \/ CallsSql) =>
       IF registry._activeMigration.active THEN AddsOneTask
       ELSE IF registry.datastore THEN SendsOneQuery
       ELSE SendsNothing]_vars

C28_Witness ==
  /\ registry._activeMigration.active
  /\ registry.datastore
  /\ Len(registry.rawQueries) = 1
  /\ Len(Tasks(registry)) = 1
  /\ Tasks(registry)[1].method = "_sql"

\* C29: once setup has finished, whatever models are created and destroyed,
\* a name maps to a Model in internals exactly when findModel returns that
\* Model, so that a destroyed model is in neither.
C29_RegistryViewsAgree ==
  registry.chain = "fulfilled" =>
    \A name \in RegistryNames :
      isModel(registry.internals[name])
        <=> (isModel(findModel(registry, name))
               /\ findModel(registry, name) = registry.internals[name])

(***************************************************************************)
(* Properties of the create route.                                         *)
(***************************************************************************)
Automatic == automaticPropertyName(request.model)

Handled == request.at \in {"create", "resolved", "rejected"}

SetToAuthenticator(map) ==
  /\ map.t = "object"
  /\ HasKey(map, Automatic)
  /\ Get(map, Automatic) = request._authenticator

\* C27: on the create route of a model with an automatic property, when the
\* access control permits the creation, a request whose body supplies the
\* automatic property is rejected with status 400, and the map handed to the
\* model's create function, and so the instance created, has the automatic
\* property set to the request's authenticator, whatever the body, absent
\* included.
C27_AutomaticPropertyIsTheAuthenticator ==
  (Automatic # "" /\ request.canCreate /\ request.authenticatorModel /\ Handled) =>
    /\ (request.given.t = "object" /\ HasKey(request.given, Automatic))
         => (request.at = "rejected" /\ request.status = 400)
    /\ request.at \in {"create", "resolved"} => SetToAuthenticator(request.handed)
    /\ request.at = "resolved" => SetToAuthenticator(request.instance)

(***************************************************************************)
(* Properties of createSelectStatement without a whereMap.                 *)
(***************************************************************************)
\* C30: called with a null whereMap, createSelectStatement throws nothing
\* and returns a statement without any where term, whatever associations the
\* model has and whatever limit and skip are given.
C30_MissingWhereMapIsNoFilter ==
  (call.op = "createSelectStatement" /\ args.whereMap = Null) =>
    /\ call.err = ""
    /\ \A q \in Queries(call.statement) : q.wheres = <<>>

====
